---- MODULE Spec2Model ----
(***************************************************************************)
(* SingaTransit routing core: the pathfinder web worker (findPath with     *)
(* transfer penalties and mode exclusions, the fastest/direct alternative  *)
(* generator and the message handler), its min-heap and the service        *)
(* classifier.                                                             *)
(*                                                                         *)
(* A JS value that may be null is a sequence of length 0 (null) or 1.      *)
(* An object used as an ordered dictionary (Object.entries order) is a     *)
(* sequence of entries.                                                    *)
(***************************************************************************)
EXTENDS Integers, Sequences, FiniteSets, TLC

VARIABLES
    build,      \* which revision of pathfinder.worker.ts the page runs
    graph,      \* module-level `graph`: <<>> while null, <<g>> once loaded
    metadata,   \* module-level `metadata` (coordinate revision): <<>> or <<m>>
    loading,    \* TRUE while the initial fetch has not settled
    inbox,      \* CALCULATE messages posted by the host, not yet delivered
    received,   \* number of messages delivered to self.onmessage so far
    outbox,     \* messages the worker posted to the host, in order
    calls,      \* the findPath calls of the last delivered message, with results
    hung,       \* TRUE once a handler entered a loop it never leaves
    inputPath,        \* the path handed to formatRoute / generateSegments / processRoutes
    pageMetadata,     \* the page's stop metadata: stop id -> [name, lat, lng]
    applied,          \* the presentation function applied last, "" before any
    instructions,     \* the legs formatRoute returned
    routeSegments,    \* the polyline segments built from the path
    processedRoutes,  \* what processRoutes returned
    candidates,       \* the routes handed to filterAndSortRoutes
    excludedSet,      \* its excludedModes argument
    activeSort,       \* its sortOption argument
    shownRoutes,      \* what filterAndSortRoutes returned
    minHeap,          \* the array of a MinHeap
    popped,           \* what the last pop() returned: <<>> for undefined, else <<node>>
    query,            \* the arguments of the findPath call being followed step by step
    search,           \* its distances, previous, pq, visited and iteration count
    searching         \* TRUE while its while loop has not been left

\* the worker's state
workerVars == <<build, graph, metadata, loading, inbox, received, outbox, calls, hung>>

\* the state of the page's presentation functions
pageVars == <<inputPath, pageMetadata, applied, instructions, routeSegments,
              processedRoutes, candidates, excludedSet, activeSort, shownRoutes>>

\* a heap and a search followed operation by operation
unitVars == <<minHeap, popped, query, search, searching>>

vars == <<workerVars, pageVars, unitVars>>

(***************************************************************************)
(* Bounds of the model.                                                    *)
(***************************************************************************)
MaxRequests == 2

(***************************************************************************)
(* Program constants.                                                      *)
(***************************************************************************)
BASE_TRANSFER_COST == 300
DIRECT_ROUTE_PENALTY == 600
WALK_COST_MULTIPLIER == 2
MAX_ITERATIONS == 100000
MAX_RECONSTRUCT_STEPS == 2000

(***************************************************************************)
(* Service names are strings; the classifier looks at their characters.    *)
(***************************************************************************)
ServiceChars(service) ==
    CASE service = "10"    -> <<"1", "0">>
      [] service = "20"    -> <<"2", "0">>
      [] service = "30"    -> <<"3", "0">>
      [] service = "WALK"  -> <<"W", "A", "L", "K">>
      [] service = "NSL"   -> <<"N", "S", "L">>
      [] service = "BPLrt" -> <<"B", "P", "L", "r", "t">>
      [] service = "Start" -> <<"S", "t", "a", "r", "t">>
      [] service = "End"   -> <<"E", "n", "d">>

startsWith(s, p) ==
    /\ Len(p) <= Len(s)
    /\ SubSeq(s, 1, Len(p)) = p

endsWith(s, p) ==
    /\ Len(p) <= Len(s)
    /\ SubSeq(s, Len(s) - Len(p) + 1, Len(s)) = p

includes(s, p) ==
    \E i \in 1..(Len(s) + 1) :
        /\ i + Len(p) - 1 <= Len(s)
        /\ SubSeq(s, i, i + Len(p) - 1) = p

mrtLines == { <<"N","S","L">>, <<"E","W","L">>, <<"N","E","L">>,
              <<"C","C","L">>, <<"D","T","L">>, <<"T","E","L">> }

lrtLines == { <<"B","P","L","r","t">>, <<"S","K","L","r","t">>,
              <<"P","G","L","r","t">>, <<"L","R","T">> }

getServiceType(service) ==
    LET s == ServiceChars(service) IN
    IF service = "WALK" THEN "WALK"
    ELSE IF \E line \in mrtLines : startsWith(s, line) THEN "MRT"
    ELSE IF (\E line \in lrtLines : includes(s, line)) \/ endsWith(s, <<"L","R","T">>)
         THEN "LRT"
    ELSE "BUS"

(***************************************************************************)
(* MinHeap: a binary heap in an array.  Indices are the code's 0-based     *)
(* indices; At(heap, i) is heap[i].                                        *)
(***************************************************************************)
At(heap, i) == heap[i + 1]

Swap(heap, i, j) ==
    [heap EXCEPT ![i + 1] = heap[j + 1], ![j + 1] = heap[i + 1]]

RECURSIVE bubbleUp(_, _)
bubbleUp(heap, index) ==
    IF index <= 0 THEN heap
    ELSE LET parentIndex == (index - 1) \div 2 IN
         IF At(heap, parentIndex).priority <= At(heap, index).priority THEN heap
         ELSE bubbleUp(Swap(heap, parentIndex, index), parentIndex)

\* a bubbleDown that never looks at the right child
RECURSIVE bubbleDown_LeftOnly(_, _)
bubbleDown_LeftOnly(heap, index) ==
    LET leftChild == 2 * index + 1
        smallest == IF leftChild < Len(heap)
                       /\ At(heap, leftChild).priority < At(heap, index).priority
                    THEN leftChild ELSE index
    IN  IF smallest = index THEN heap
        ELSE bubbleDown_LeftOnly(Swap(heap, index, smallest), smallest)

RECURSIVE bubbleDown(_, _)
bubbleDown(heap, index) ==
    LET leftChild == 2 * index + 1
        rightChild == 2 * index + 2
        s1 == IF leftChild < Len(heap)
                 /\ At(heap, leftChild).priority < At(heap, index).priority
              THEN leftChild ELSE index
        smallest == IF rightChild < Len(heap)
                       /\ At(heap, rightChild).priority < At(heap, s1).priority
                    THEN rightChild ELSE s1
    IN  IF smallest = index THEN heap
        ELSE bubbleDown(Swap(heap, index, smallest), smallest)

push(heap, element, priority) ==
    bubbleUp(Append(heap, [element |-> element, priority |-> priority]), Len(heap))

\* pop() of a non-empty heap: the heap that is left (the entry returned is heap[0])
popRest(heap) ==
    LET last == heap[Len(heap)]
        rest == SubSeq(heap, 1, Len(heap) - 1)
    IN  IF Len(rest) > 0 THEN bubbleDown([rest EXCEPT ![1] = last], 0) ELSE rest

length(heap) == Len(heap)

\* pop(): what it returns (<<>> for undefined, else <<min>>) and the heap it leaves
pop(heap) ==
    IF length(heap) = 0 THEN [min |-> <<>>, heap |-> heap]
    ELSE [min |-> <<At(heap, 0)>>, heap |-> popRest(heap)]

(***************************************************************************)
(* The graph: a function from node id to its adjacency, the adjacency an   *)
(* ordered sequence of entries [to, edges], edges a sequence of            *)
(* [service, direction, weight] records.                                   *)
(***************************************************************************)
hasNode(g, n) == n \in DOMAIN g

\* EdgeCost with the service comparison inverted: the penalty is charged when the
\* service is kept
EdgeCost_PenaltyInverted(edge, incomingService, transferPenalty) ==
    LET weight == IF edge.service = "WALK"
                  THEN edge.weight * WALK_COST_MULTIPLIER ELSE edge.weight
        penalty == IF incomingService # <<>> /\ incomingService[1] = edge.service
                   THEN BASE_TRANSFER_COST + transferPenalty ELSE 0
    IN  weight + penalty

\* EdgeCost charging a walk its plain weight
EdgeCost_WalkNotDoubled(edge, incomingService, transferPenalty) ==
    LET penalty == IF incomingService # <<>> /\ incomingService[1] # edge.service
                   THEN BASE_TRANSFER_COST + transferPenalty ELSE 0
    IN  edge.weight + penalty

\* the cost findPath charges for `edge` when u was reached by incomingService
\* (<<>> when previous[u] is absent)
EdgeCost(edge, incomingService, transferPenalty) ==
    LET weight == IF edge.service = "WALK"
                  THEN edge.weight * WALK_COST_MULTIPLIER ELSE edge.weight
        penalty == IF incomingService # <<>> /\ incomingService[1] # edge.service
                   THEN BASE_TRANSFER_COST + transferPenalty ELSE 0
    IN  weight + penalty

\* IsExcluded comparing the service name, not its mode, with the exclusions
IsExcluded_ByServiceName(edge, excludedModes) ==
    edge.service # "WALK" /\ edge.service \in excludedModes

\* the mode filter of the inner loop
IsExcluded(edge, excludedModes) ==
    LET mode == getServiceType(edge.service) IN
    mode # "WALK" /\ mode \in excludedModes

\* the inner loop over the parallel edges of one neighbour: best is <<>> while
\* bestEdge is null, else <<[edge, cost]>>
RECURSIVE BestEdgeFrom(_, _, _, _, _, _)
BestEdgeFrom(edges, i, best, incomingService, transferPenalty, excludedModes) ==
    IF i > Len(edges) THEN best
    ELSE LET edge == edges[i]
             currentEdgeCost == EdgeCost(edge, incomingService, transferPenalty)
             next == IF IsExcluded(edge, excludedModes) THEN best
                     ELSE IF best = <<>> \/ currentEdgeCost < best[1].cost
                          THEN << [edge |-> edge, cost |-> currentEdgeCost] >>
                          ELSE best
         IN  BestEdgeFrom(edges, i + 1, next, incomingService, transferPenalty,
                          excludedModes)

BestEdge(edges, incomingService, transferPenalty, excludedModes) ==
    BestEdgeFrom(edges, 1, <<>>, incomingService, transferPenalty, excludedModes)

\* alt < (distances[v] || Infinity): a recorded distance of 0 is falsy
ImprovesOn(alt, distances, v) ==
    IF v \in DOMAIN distances /\ distances[v] # 0 THEN alt < distances[v] ELSE TRUE

\* the for loop over Object.entries(neighbors) of one expansion
RECURSIVE Relax(_, _, _, _, _, _, _, _)
Relax(s, u, priority, incomingService, entries, i, transferPenalty, excludedModes) ==
    IF i > Len(entries) THEN s
    ELSE LET v == entries[i].to
             best == BestEdge(entries[i].edges, incomingService, transferPenalty,
                              excludedModes)
             s2 == IF best = <<>> THEN s
                   ELSE LET alt == priority + best[1].cost IN
                        IF ImprovesOn(alt, s.distances, v)
                        THEN [s EXCEPT
                                !.distances = (v :> alt) @@ s.distances,
                                !.previous = (v :> [node |-> u, edge |-> best[1].edge])
                                             @@ s.previous,
                                !.pq = push(s.pq, v, alt)]
                        ELSE s
         IN  Relax(s2, u, priority, incomingService, entries, i + 1, transferPenalty,
                   excludedModes)

\* the while loop of findPath; s.error becomes <<msg>> on the iteration cap
RECURSIVE SearchLoop(_, _, _, _, _)
SearchLoop(g, endNode, transferPenalty, excludedModes, s) ==
    IF Len(s.pq) = 0 THEN s
    ELSE IF s.iterations + 1 > MAX_ITERATIONS
         THEN [s EXCEPT !.iterations = s.iterations + 1,
                        !.error = <<"Computation timed out">>]
    ELSE LET current == s.pq[1]
             u == current.element
             s1 == [s EXCEPT !.iterations = s.iterations + 1, !.pq = popRest(s.pq)]
         IN  IF u \in DOMAIN s.distances /\ current.priority > s.distances[u]
             THEN SearchLoop(g, endNode, transferPenalty, excludedModes, s1)
             ELSE IF u = endNode THEN s1
             ELSE IF u \in s.visited
             THEN SearchLoop(g, endNode, transferPenalty, excludedModes, s1)
             ELSE LET s2 == [s1 EXCEPT !.visited = s.visited \cup {u}] IN
                  IF ~hasNode(g, u)
                  THEN SearchLoop(g, endNode, transferPenalty, excludedModes, s2)
                  ELSE LET incomingService ==
                               IF u \in DOMAIN s.previous
                               THEN <<s.previous[u].edge.service>> ELSE <<>>
                       IN  SearchLoop(g, endNode, transferPenalty, excludedModes,
                                      Relax(s2, u, current.priority, incomingService,
                                            g[u], 1, transferPenalty, excludedModes))

InitialSearch(startNode) ==
    [distances |-> (startNode :> 0),
     previous |-> <<>>,
     pq |-> push(<<>>, startNode, 0),
     visited |-> {},
     iterations |-> 0,
     error |-> <<>>]

\* a findPath result: error is <<>> or <<message>>, path is <<>> (no path
\* property) or <<the array>>
ErrorResult(msg) == [error |-> <<msg>>, path |-> <<>>, totalDuration |-> 0]

\* PathStep with the endpoints exchanged
PathStep_Reversed(step, curr) ==
    [from |-> curr, to |-> step.node, service |-> step.edge.service,
     direction |-> step.edge.direction, weight |-> step.edge.weight]

PathStep(step, curr) ==
    [from |-> step.node, to |-> curr, service |-> step.edge.service,
     direction |-> step.edge.direction, weight |-> step.edge.weight]

\* The reconstruction loop.  stepCount is the value the guard `stepCount++ > 2000`
\* reads.  Once more steps were taken than previous has entries the chain has
\* revisited a node, so neither break can fire any more and the loop runs on to
\* the cap: that outcome is returned at once instead of iterating up to it.
RECURSIVE Reconstruct(_, _, _, _, _, _)
Reconstruct(previous, startNode, curr, stepCount, path, trueDuration) ==
    IF stepCount > MAX_RECONSTRUCT_STEPS THEN ErrorResult("Path reconstruction error")
    ELSE IF curr = startNode
         THEN [error |-> <<>>, path |-> <<path>>, totalDuration |-> trueDuration]
    ELSE IF curr \notin DOMAIN previous
         THEN [error |-> <<>>, path |-> <<path>>, totalDuration |-> trueDuration]
    ELSE IF stepCount > Cardinality(DOMAIN previous)
            /\ Cardinality(DOMAIN previous) < MAX_RECONSTRUCT_STEPS
         THEN ErrorResult("Path reconstruction error")
    ELSE LET step == previous[curr] IN
         Reconstruct(previous, startNode, step.node, stepCount + 1,
                     <<PathStep(step, curr)>> \o path,
                     trueDuration + step.edge.weight)

\* what findPath returns once the while loop has ended in state s
ResultOfSearch(s, startNode, endNode) ==
    IF s.error # <<>> THEN ErrorResult(s.error[1])
    ELSE IF startNode # endNode /\ endNode \notin DOMAIN s.previous
         THEN ErrorResult("No path found")
    ELSE Reconstruct(s.previous, startNode, endNode, 0, <<>>, 0)

\* findPath returning the algorithmic distance as totalDuration
findPath_DistanceAsDuration(g, startNode, endNode, transferPenalty, excludedModes) ==
    IF g = <<>> THEN ErrorResult("Graph not loaded")
    ELSE IF ~hasNode(g[1], startNode)
         THEN ErrorResult("Start Node " \o startNode \o " not found")
    ELSE IF ~hasNode(g[1], endNode)
         THEN ErrorResult("End Node " \o endNode \o " not found")
    ELSE LET s == SearchLoop(g[1], endNode, transferPenalty, excludedModes,
                             InitialSearch(startNode))
             r == ResultOfSearch(s, startNode, endNode)
         IN  IF r.error # <<>> THEN r
             ELSE [r EXCEPT !.totalDuration = s.distances[endNode]]

\* findPath looking the destination up before the origin
findPath_DestinationFirst(g, startNode, endNode, transferPenalty, excludedModes) ==
    IF g = <<>> THEN ErrorResult("Graph not loaded")
    ELSE IF ~hasNode(g[1], endNode)
         THEN ErrorResult("End Node " \o endNode \o " not found")
    ELSE IF ~hasNode(g[1], startNode)
         THEN ErrorResult("Start Node " \o startNode \o " not found")
    ELSE ResultOfSearch(SearchLoop(g[1], endNode, transferPenalty, excludedModes,
                                   InitialSearch(startNode)),
                        startNode, endNode)

findPath(g, startNode, endNode, transferPenalty, excludedModes) ==
    IF g = <<>> THEN ErrorResult("Graph not loaded")
    ELSE IF ~hasNode(g[1], startNode)
         THEN ErrorResult("Start Node " \o startNode \o " not found")
    ELSE IF ~hasNode(g[1], endNode)
         THEN ErrorResult("End Node " \o endNode \o " not found")
    ELSE ResultOfSearch(SearchLoop(g[1], endNode, transferPenalty, excludedModes,
                                   InitialSearch(startNode)),
                        startNode, endNode)

RECURSIVE StepsEqualFrom(_, _, _)
StepsEqualFrom(pathA, pathB, i) ==
    IF i > Len(pathA) THEN TRUE
    ELSE IF pathA[i].from # pathB[i].from
            \/ pathA[i].to # pathB[i].to
            \/ pathA[i].service # pathB[i].service
         THEN FALSE
    ELSE StepsEqualFrom(pathA, pathB, i + 1)

\* pathsAreEqual comparing the endpoints of the steps only
pathsAreEqual_EndpointsOnly(pathA, pathB) ==
    /\ Len(pathA) = Len(pathB)
    /\ \A i \in 1..Len(pathA) :
          pathA[i].from = pathB[i].from /\ pathA[i].to = pathB[i].to

pathsAreEqual(pathA, pathB) ==
    IF Len(pathA) # Len(pathB) THEN FALSE
    ELSE StepsEqualFrom(pathA, pathB, 1)

(***************************************************************************)
(* The transit_graph.json files the worker may be served: nodes A, B, C, D *)
(* (the fixture of the specification among them), each connection drawn    *)
(* from a few alternatives: zero weights, parallel edges of different      *)
(* services, rail services, a back edge C -> B, absent connections.        *)
(***************************************************************************)
Edge(service, direction, weight) ==
    [service |-> service, direction |-> direction, weight |-> weight]

\* adjacency in key order; a neighbour without edges is not a key
Adjacency(entries) == SelectSeq(entries, LAMBDA e : e.edges # <<>>)

GraphOf(ab, bc, cd, ad, bd, cb) ==
    [n \in {"A", "B", "C", "D"} |->
        CASE n = "A" -> Adjacency(<< [to |-> "B", edges |-> ab], [to |-> "D", edges |-> ad] >>)
          [] n = "B" -> Adjacency(<< [to |-> "C", edges |-> bc], [to |-> "D", edges |-> bd] >>)
          [] n = "C" -> Adjacency(<< [to |-> "D", edges |-> cd], [to |-> "B", edges |-> cb] >>)
          [] n = "D" -> << >>]

FixtureGraph ==
    GraphOf(<<Edge("10", 1, 60)>>, <<Edge("10", 1, 120)>>, <<Edge("20", 1, 90)>>,
            <<Edge("WALK", 1, 600)>>, <<Edge("30", 1, 180)>>, <<>>)

\* a line of five stops A, B, C, E, D with parallel services between B and C
\* and between C and E
ChainGraph ==
    [n \in {"A", "B", "C", "D", "E"} |->
        CASE n = "A" -> << [to |-> "B", edges |-> <<Edge("10", 1, 60)>>] >>
          [] n = "B" -> << [to |-> "C", edges |-> <<Edge("10", 1, 500), Edge("20", 1, 100)>>] >>
          [] n = "C" -> << [to |-> "E", edges |-> <<Edge("20", 1, 10), Edge("30", 1, 5)>>] >>
          [] n = "E" -> << [to |-> "D", edges |-> <<Edge("20", 1, 50)>>] >>
          [] n = "D" -> << >>]

GraphFiles ==
    {ChainGraph} \cup
    { GraphOf(ab, bc, cd, ad, bd, cb) :
        ab \in { <<Edge("10", 1, 60)>>, <<Edge("10", 1, 0)>>,
                 <<Edge("10", 1, 60), Edge("NSL", 2, 50)>> },
        bc \in { <<Edge("10", 1, 120)>>, <<Edge("10", 1, 400)>> },
        cd \in { <<Edge("20", 1, 90)>> },
        ad \in { <<Edge("WALK", 1, 600)>>, <<Edge("WALK", 1, 500)>>, <<>> },
        bd \in { <<Edge("30", 1, 180)>>, <<Edge("BPLrt", 1, 50)>>,
                 <<Edge("30", 1, 180), Edge("10", 2, 500)>>, <<>> },
        cb \in { <<>>, <<Edge("10", 2, 60)>> } }

ExclusionSets == { {}, {"BUS"}, {"MRT", "LRT"} }

Request(start, end, excludedModes) ==
    [start |-> start, end |-> end, excludedModes |-> excludedModes]

\* the CALCULATE payloads the host posts: Y and Z are not nodes of any graph
Requests ==
    { Request("A", "D", x) : x \in ExclusionSets }
    \cup { Request("A", "Z", {}), Request("Z", "D", {}), Request("A", "A", {}),
           Request("Z", "Y", {}) }

(***************************************************************************)
(* The worker that accepts excludedModes (transfer penalties, fastest and  *)
(* direct alternatives).                                                   *)
(***************************************************************************)
Call(g, startNode, endNode, transferPenalty, excludedModes) ==
    [origin |-> startNode, destination |-> endNode,
     transferPenalty |-> transferPenalty, excludedModes |-> excludedModes,
     result |-> findPath(g, startNode, endNode, transferPenalty, excludedModes)]

RouteOption(id, label, result) ==
    [id |-> id, label |-> label, path |-> result.path[1],
     totalDuration |-> result.totalDuration]

\* a posted message; re is the number of the delivered message it answers
Message(type, error, routes, re) ==
    [type |-> type, error |-> error, routes |-> routes, re |-> re]

\* the block that adds the direct route: <<>> or <<the route>>
DirectRoute(fastestResult, directResult) ==
    IF directResult.error = <<>> /\ directResult.path # <<>>
    THEN IF ~pathsAreEqual(fastestResult.path[1], directResult.path[1])
         THEN <<RouteOption("direct", "Less Transfers", directResult)>>
         ELSE <<>>
    ELSE <<>>

\* RoutesOf giving up the fastest route when the direct search failed
RoutesOf_NoneOnDirectFailure(fastestResult, directResult) ==
    IF directResult.error # <<>> THEN <<>>
    ELSE <<RouteOption("fastest", "Fastest", fastestResult)>>
         \o DirectRoute(fastestResult, directResult)

\* the routes array built once the fastest search succeeded
RoutesOf(fastestResult, directResult) ==
    <<RouteOption("fastest", "Fastest", fastestResult)>>
    \o DirectRoute(fastestResult, directResult)

\* the not-ready answer posted as a RESULT
NotReadyMessage_AsResult(n) == Message("RESULT", <<"Graph not ready">>, <<>>, n)

\* the message posted while graph is null
NotReadyMessage(n) == Message("ERROR", <<"Graph not ready">>, <<>>, n)

\* the handler after both searches: the RESULT with the routes
AfterDirect(n, fastest, direct) ==
    [posted |-> << Message("RESULT", <<>>, <<RoutesOf(fastest.result, direct.result)>>,
                           n) >>,
     calls |-> <<fastest, direct>>]

\* the handler after the fastest search
AfterFastest(g, payload, n, fastest) ==
    IF fastest.result.error # <<>>
    THEN [posted |-> << Message("RESULT", fastest.result.error, <<>>, n) >>,
          calls |-> <<fastest>>]
    ELSE IF fastest.result.path = <<>>
    THEN [posted |-> << Message("RESULT", <<>>, << <<>> >>, n) >>,
          calls |-> <<fastest>>]
    ELSE AfterDirect(n, fastest,
                     Call(g, payload.start, payload.end, DIRECT_ROUTE_PENALTY,
                          payload.excludedModes))

\* self.onmessage for one CALCULATE payload, the n-th delivered message: the
\* messages it posts and the findPath calls it makes
onmessage(g, payload, n) ==
    IF g = <<>>
    THEN [posted |-> << NotReadyMessage(n) >>, calls |-> <<>>]
    ELSE AfterFastest(g, payload, n,
                      Call(g, payload.start, payload.end, 0, payload.excludedModes))

(***************************************************************************)
(* The coordinate revision of the worker (virtual __START__ / __END__      *)
(* nodes).  Stops lie on one meridian, so a coordinate is a position on a  *)
(* line counted in hectometres and the haversine distance of two points is *)
(* the difference of their positions; getDist returns hectometres, and     *)
(* `dist * 720` (dist in km) is dist * 72.                                 *)
(***************************************************************************)
MAX_DIST_HM == 8
SECONDS_PER_HM == 72
NEAREST_LIMIT == 5
COORD_TRANSFER_PENALTY == 300
COORD_MAX_ITERATIONS == 50000

getDist(a, b) == IF a < b THEN b - a ELSE a - b

\* results.sort((a, b) => a.dist - b.dist): a stable insertion
RECURSIVE InsertByDist(_, _)
InsertByDist(sorted, x) ==
    IF sorted = <<>> THEN <<x>>
    ELSE IF x.dist < sorted[1].dist THEN <<x>> \o sorted
    ELSE <<sorted[1]>> \o InsertByDist(Tail(sorted), x)

RECURSIVE SortByDist(_, _)
SortByDist(results, i) ==
    IF i = 0 THEN <<>>
    ELSE InsertByDist(SortByDist(results, i - 1), results[i])

findNearestNodes(meta, coords) ==
    IF meta = <<>> THEN <<>>
    ELSE LET all == [i \in 1..Len(meta[1]) |->
                        [id |-> meta[1][i].id, dist |-> getDist(coords, meta[1][i].pos)]]
             results == SelectSeq(all, LAMBDA r : r.dist <= MAX_DIST_HM)
             sorted == SortByDist(results, Len(results))
         IN  SubSeq(sorted, 1, IF Len(sorted) < NEAREST_LIMIT THEN Len(sorted)
                                ELSE NEAREST_LIMIT)

TypedEdge(type, service, distance, weight) ==
    [type |-> type, service |-> service, distance |-> distance, weight |-> weight]

\* the virtual edges out of __START__
StartEntries(startNeighbors) ==
    [i \in 1..Len(startNeighbors) |->
        [to |-> startNeighbors[i].id,
         edges |-> << TypedEdge("WALK", "Start", startNeighbors[i].dist,
                                startNeighbors[i].dist * SECONDS_PER_HM) >>]]

\* neighbors[endNodeID].push(...) on neighbors = graph[u]: the adjacency of u
\* in the graph itself gets the virtual edge
PushEndEdge(adjacency, dist) ==
    LET edge == TypedEdge("WALK", "End", dist, dist * SECONDS_PER_HM) IN
    IF \E k \in 1..Len(adjacency) : adjacency[k].to = "__END__"
    THEN [k \in 1..Len(adjacency) |->
            IF adjacency[k].to = "__END__"
            THEN [adjacency[k] EXCEPT !.edges = Append(adjacency[k].edges, edge)]
            ELSE adjacency[k]]
    ELSE Append(adjacency, [to |-> "__END__", edges |-> <<edge>>])

\* the graph after the neighbours of u were fetched
GraphAfterNeighbors(g, u, endNeighbors) ==
    IF u # "__START__" /\ hasNode(g, u)
       /\ \E k \in 1..Len(endNeighbors) : endNeighbors[k].id = u
    THEN LET k == CHOOSE j \in 1..Len(endNeighbors) :
                      /\ endNeighbors[j].id = u
                      /\ \A h \in 1..(j - 1) : endNeighbors[h].id # u
         IN  [g EXCEPT ![u] = PushEndEdge(g[u], endNeighbors[k].dist)]
    ELSE g

\* edges.reduce((prev, curr) => prev.weight < curr.weight ? prev : curr)
RECURSIVE MinWeightEdgeFrom(_, _, _)
MinWeightEdgeFrom(edges, i, prev) ==
    IF i > Len(edges) THEN prev
    ELSE MinWeightEdgeFrom(edges, i + 1,
                           IF prev.weight < edges[i].weight THEN prev ELSE edges[i])

MinWeightEdge(edges) == MinWeightEdgeFrom(edges, 2, edges[1])

CoordPenalty(previous, u, bestEdge) ==
    IF u \in DOMAIN previous
       /\ (previous[u].edge.service # bestEdge.service
           \/ previous[u].edge.type # bestEdge.type)
    THEN COORD_TRANSFER_PENALTY ELSE 0

RECURSIVE CoordRelax(_, _, _, _, _)
CoordRelax(s, u, currentDist, entries, i) ==
    IF i > Len(entries) THEN s
    ELSE LET v == entries[i].to
             edges == entries[i].edges
             s2 == IF edges = <<>> THEN s
                   ELSE LET bestEdge == MinWeightEdge(edges)
                            alt == currentDist + bestEdge.weight
                                   + CoordPenalty(s.previous, u, bestEdge)
                        IN  IF ImprovesOn(alt, s.distances, v)
                            THEN [s EXCEPT
                                    !.distances = (v :> alt) @@ s.distances,
                                    !.previous = (v :> [node |-> u, edge |-> bestEdge])
                                                 @@ s.previous,
                                    !.pq = push(s.pq, v, alt)]
                            ELSE s
         IN  CoordRelax(s2, u, currentDist, entries, i + 1)

\* the while loop of the coordinate findPath; s.graph is the module-level graph
RECURSIVE CoordSearchLoop(_, _, _)
CoordSearchLoop(startNeighbors, endNeighbors, s) ==
    IF Len(s.pq) = 0 THEN s
    ELSE IF s.iterations + 1 > COORD_MAX_ITERATIONS
         THEN [s EXCEPT !.iterations = s.iterations + 1, !.error = <<"Timeout">>]
    ELSE LET current == s.pq[1]
             u == current.element
             s1 == [s EXCEPT !.iterations = s.iterations + 1, !.pq = popRest(s.pq)]
         IN  IF u \in DOMAIN s.distances /\ current.priority > s.distances[u]
             THEN CoordSearchLoop(startNeighbors, endNeighbors, s1)
             ELSE IF u = "__END__" THEN s1
             ELSE IF u \in s.visited
             THEN CoordSearchLoop(startNeighbors, endNeighbors, s1)
             ELSE LET g2 == GraphAfterNeighbors(s.graph, u, endNeighbors)
                      neighbors == IF u = "__START__" THEN StartEntries(startNeighbors)
                                   ELSE IF hasNode(g2, u) THEN g2[u]
                                   ELSE <<>>
                      s2 == [s1 EXCEPT !.visited = s.visited \cup {u}, !.graph = g2]
                  IN  CoordSearchLoop(startNeighbors, endNeighbors,
                                      CoordRelax(s2, u, current.priority, neighbors, 1))

CoordPathStep(step, curr) ==
    [from |-> IF step.node = "__START__" THEN "Current Location" ELSE step.node,
     to |-> IF curr = "__END__" THEN "Destination" ELSE curr,
     type |-> step.edge.type, service |-> step.edge.service,
     weight |-> step.edge.weight]

\* The reconstruction loop of the coordinate revision has no step cap: it ends
\* at __START__ or at a node without previous entry.  Once more steps were
\* taken than previous has entries the chain has revisited a node and the loop
\* never ends: <<>> stands for that outcome, <<path>> for a returned path.
RECURSIVE CoordReconstruct(_, _, _, _)
CoordReconstruct(previous, curr, steps, path) ==
    IF curr = "__START__" THEN <<path>>
    ELSE IF curr \notin DOMAIN previous THEN <<path>>
    ELSE IF steps > Cardinality(DOMAIN previous) THEN <<>>
    ELSE CoordReconstruct(previous, previous[curr].node, steps + 1,
                          <<CoordPathStep(previous[curr], curr)>> \o path)

\* findPath(start, end) of the coordinate revision: the result, whether the
\* call returns at all, and the graph it leaves behind
CoordOutcome(result, returns, g) == [result |-> result, returns |-> returns, graph |-> g]

\* the end of findPath once the reconstruction loop has produced `path`
\* (<<>>: the loop never ends, the call does not return)
CoordResultOfPath(s, path) ==
    IF path = <<>>
    THEN CoordOutcome(ErrorResult("never returns"), FALSE, <<s.graph>>)
    ELSE CoordOutcome([error |-> <<>>, path |-> path,
                       totalDuration |-> s.distances["__END__"]],
                      TRUE, <<s.graph>>)

\* what findPath does once the while loop has ended in state s
CoordResultOfSearch(s) ==
    IF s.error # <<>>
    THEN CoordOutcome(ErrorResult(s.error[1]), TRUE, <<s.graph>>)
    ELSE IF "__END__" \notin DOMAIN s.distances
    THEN CoordOutcome(ErrorResult("No path found"), TRUE, <<s.graph>>)
    ELSE CoordResultOfPath(s, CoordReconstruct(s.previous, "__END__", 0, <<>>))

findPathCoord(g, meta, start, end) ==
    IF g = <<>> \/ meta = <<>>
    THEN CoordOutcome(ErrorResult("Graph not loaded yet"), TRUE, g)
    ELSE LET startNeighbors == findNearestNodes(meta, start)
             endNeighbors == findNearestNodes(meta, end)
         IN  IF Len(startNeighbors) = 0
             THEN CoordOutcome(ErrorResult("No transport nodes near start location"),
                               TRUE, g)
             ELSE IF Len(endNeighbors) = 0
             THEN CoordOutcome(ErrorResult("No transport nodes near destination"),
                               TRUE, g)
             ELSE CoordResultOfSearch(
                      CoordSearchLoop(startNeighbors, endNeighbors,
                                      [graph |-> g[1],
                                       distances |-> ("__START__" :> 0),
                                       previous |-> <<>>,
                                       pq |-> push(<<>>, "__START__", 0),
                                       visited |-> {},
                                       iterations |-> 0,
                                       error |-> <<>>]))

\* a message the coordinate or the basic revision posts: the result travels
\* flattened (error, path, totalDuration)
ResultMessage(type, result, n) ==
    [type |-> type, error |-> result.error, path |-> result.path,
     totalDuration |-> result.totalDuration, re |-> n]

\* self.onmessage of the coordinate revision
CoordResponse(out, n) ==
    IF out.returns
    THEN [posted |-> << ResultMessage("RESULT", out.result, n) >>,
          calls |-> << [origin |-> "Current Location", destination |-> "Destination",
                        transferPenalty |-> 0, excludedModes |-> {},
                        result |-> out.result] >>,
          graph |-> out.graph, hung |-> FALSE]
    ELSE [posted |-> <<>>, calls |-> <<>>, graph |-> out.graph, hung |-> TRUE]

\* self.onmessage of the coordinate revision; findPath throws nothing, so the
\* catch posts nothing
onmessageCoord(g, meta, payload, n) ==
    CoordResponse(findPathCoord(g, meta, payload.start, payload.end), n)

CoordGraphOf(ab, ba, bd, ad) ==
    [n \in {"A", "B", "D"} |->
        CASE n = "A" -> Adjacency(<< [to |-> "B", edges |-> ab], [to |-> "D", edges |-> ad] >>)
          [] n = "B" -> Adjacency(<< [to |-> "A", edges |-> ba], [to |-> "D", edges |-> bd] >>)
          [] n = "D" -> << >>]

CoordGraphFiles ==
    { CoordGraphOf(ab, ba, bd, ad) :
        ab \in { <<TypedEdge("BUS", "10", 20, 60)>> },
        ba \in { <<>>, <<TypedEdge("BUS", "10", 20, 60)>> },
        bd \in { <<TypedEdge("BUS", "10", 30, 120)>>,
                 <<TypedEdge("MRT", "NSL", 30, 100)>>,
                 <<TypedEdge("BUS", "10", 30, 120), TypedEdge("MRT", "NSL", 30, 100)>>,
                 <<>> },
        ad \in { <<>>, <<TypedEdge("BUS", "20", 50, 400)>> } }

\* stops_metadata.json: stop positions in hectometres along the line
MetadataFiles ==
    { << [id |-> "A", pos |-> a], [id |-> "B", pos |-> 20], [id |-> "D", pos |-> 50] >> :
        a \in {0, 3} }

\* the coordinate payloads: position 200 has no stop within reach
CoordRequests == [start : {0, 200}, end : {50, 53, 200}]

(***************************************************************************)
(* The basic revision of the worker: minimum-weight edge, no penalties.    *)
(***************************************************************************)
BASIC_MAX_ITERATIONS == 50000
BASIC_MAX_RECONSTRUCT_STEPS == 1000

RECURSIVE BasicRelax(_, _, _, _, _)
BasicRelax(s, u, currentDist, entries, i) ==
    IF i > Len(entries) THEN s
    ELSE LET v == entries[i].to
             edges == entries[i].edges
             s2 == IF edges = <<>> THEN s
                   ELSE LET bestEdge == MinWeightEdge(edges)
                            alt == currentDist + bestEdge.weight
                        IN  IF ImprovesOn(alt, s.distances, v)
                            THEN [s EXCEPT
                                    !.distances = (v :> alt) @@ s.distances,
                                    !.previous = (v :> [node |-> u, edge |-> bestEdge])
                                                 @@ s.previous,
                                    !.pq = push(s.pq, v, alt)]
                            ELSE s
         IN  BasicRelax(s2, u, currentDist, entries, i + 1)

RECURSIVE BasicSearchLoop(_, _, _)
BasicSearchLoop(g, endNode, s) ==
    IF Len(s.pq) = 0 THEN s
    ELSE IF s.iterations + 1 > BASIC_MAX_ITERATIONS
         THEN [s EXCEPT !.iterations = s.iterations + 1,
                        !.error = <<"Computation timed out (Possible infinite loop)">>]
    ELSE LET current == s.pq[1]
             u == current.element
             s1 == [s EXCEPT !.iterations = s.iterations + 1, !.pq = popRest(s.pq)]
         IN  IF u \in DOMAIN s.distances /\ current.priority > s.distances[u]
             THEN BasicSearchLoop(g, endNode, s1)
             ELSE IF u = endNode THEN s1
             ELSE IF u \in s.visited THEN BasicSearchLoop(g, endNode, s1)
             ELSE LET s2 == [s1 EXCEPT !.visited = s.visited \cup {u}] IN
                  IF ~hasNode(g, u) THEN BasicSearchLoop(g, endNode, s2)
                  ELSE BasicSearchLoop(g, endNode,
                                       BasicRelax(s2, u, current.priority, g[u], 1))

\* stepCount is the value the guard `stepCount > 1000` reads after stepCount++;
\* a chain that revisits a node runs on to the cap (see Reconstruct)
RECURSIVE BasicReconstruct(_, _, _, _, _, _)
BasicReconstruct(previous, startNode, curr, stepCount, path, totalDuration) ==
    IF stepCount > BASIC_MAX_RECONSTRUCT_STEPS
    THEN ErrorResult("Path reconstruction loop error")
    ELSE IF curr = startNode \/ curr \notin DOMAIN previous
         THEN [error |-> <<>>, path |-> <<path>>, totalDuration |-> totalDuration]
    ELSE IF stepCount > Cardinality(DOMAIN previous) + 1
            /\ Cardinality(DOMAIN previous) + 1 < BASIC_MAX_RECONSTRUCT_STEPS
         THEN ErrorResult("Path reconstruction loop error")
    ELSE LET step == previous[curr] IN
         BasicReconstruct(previous, startNode, step.node, stepCount + 1,
                          << [from |-> step.node, to |-> curr,
                              service |-> step.edge.service,
                              weight |-> step.edge.weight] >> \o path,
                          totalDuration)

\* what the basic findPath returns once the while loop has ended in state s
BasicResultOfSearch(s, startNode, endNode) ==
    IF s.error # <<>> THEN ErrorResult(s.error[1])
    ELSE IF startNode # endNode /\ endNode \notin DOMAIN s.previous
         THEN ErrorResult("No path found between these locations")
    ELSE BasicReconstruct(s.previous, startNode, endNode, 1, <<>>,
                          s.distances[endNode])

findPathBasic(g, startNode, endNode) ==
    IF g = <<>> THEN ErrorResult("Graph not loaded")
    ELSE IF ~hasNode(g[1], startNode)
         THEN ErrorResult("Start Node " \o startNode \o " not found in graph")
    ELSE IF ~hasNode(g[1], endNode)
         THEN ErrorResult("End Node " \o endNode \o " not found in graph")
    ELSE BasicResultOfSearch(BasicSearchLoop(g[1], endNode, InitialSearch(startNode)),
                             startNode, endNode)

\* self.onmessage of the basic revision
BasicResponse(result, payload, n) ==
    [posted |-> << ResultMessage("RESULT", result, n) >>,
     calls |-> << [origin |-> payload.start, destination |-> payload.end,
                   transferPenalty |-> 0, excludedModes |-> {},
                   result |-> result] >>]

onmessageBasic(g, payload, n) ==
    IF g = <<>>
    THEN [posted |-> << NotReadyMessage(n) >>, calls |-> <<>>]
    ELSE BasicResponse(findPathBasic(g, payload.start, payload.end), payload, n)

(***************************************************************************)
(* The state machine: the initial load, the host posting requests, the     *)
(* event loop delivering them one at a time.                               *)
(***************************************************************************)
Builds == {"penalty", "coordinate", "basic"}

\* nothing has been handed to the presentation functions
PageIdle ==
    /\ inputPath = <<>>
    /\ pageMetadata = <<>>
    /\ applied = ""
    /\ instructions = <<>>
    /\ routeSegments = <<>>
    /\ processedRoutes = <<>>
    /\ candidates = <<>>
    /\ excludedSet = {}
    /\ activeSort = "FASTEST"
    /\ shownRoutes = <<>>

\* the worker before its initial load settles
WorkerInit ==
    /\ build \in Builds
    /\ graph = <<>>
    /\ metadata = <<>>
    /\ loading = TRUE
    /\ inbox = <<>>
    /\ received = 0
    /\ outbox = <<>>
    /\ calls = <<>>
    /\ hung = FALSE

\* no heap and no search is being followed
UnitsIdle ==
    /\ minHeap = <<>>
    /\ popped = <<>>
    /\ query = <<>>
    /\ search = <<>>
    /\ searching = FALSE

InitAll == PageIdle /\ UnitsIdle /\ WorkerInit

\* the page runs the worker that accepts excludedModes
Init == InitAll /\ build = "penalty"

\* initGraph(): fetch and response.json() succeed
LoadGraph ==
    /\ build \in {"penalty", "basic"}
    /\ loading
    /\ \E g \in GraphFiles : graph' = <<g>>
    /\ loading' = FALSE
    /\ UNCHANGED <<build, metadata, inbox, received, outbox, calls, hung, pageVars, unitVars>>

\* init() of the coordinate revision: both files load
LoadData ==
    /\ build = "coordinate"
    /\ loading
    /\ \E g \in CoordGraphFiles : graph' = <<g>>
    /\ \E m \in MetadataFiles : metadata' = <<m>>
    /\ loading' = FALSE
    /\ UNCHANGED <<build, inbox, received, outbox, calls, hung, pageVars, unitVars>>

\* init() of the coordinate revision: graphRes.json() succeeds, metaRes.json()
\* throws, the catch logs
LoadGraphOnly ==
    /\ build = "coordinate"
    /\ loading
    /\ \E g \in CoordGraphFiles : graph' = <<g>>
    /\ loading' = FALSE
    /\ UNCHANGED <<build, metadata, inbox, received, outbox, calls, hung, pageVars, unitVars>>

\* the initial load fails: the catch logs and the handles stay null
LoadFail ==
    /\ loading
    /\ loading' = FALSE
    /\ UNCHANGED <<build, graph, metadata, inbox, received, outbox, calls, hung, pageVars, unitVars>>

\* the host posts a CALCULATE message with node-id endpoints
PostCalculate ==
    /\ build \in {"penalty", "basic"}
    /\ received + Len(inbox) < MaxRequests
    /\ \E r \in Requests : inbox' = Append(inbox, r)
    /\ UNCHANGED <<build, graph, metadata, loading, received, outbox, calls, hung, pageVars, unitVars>>

\* the host posts a CALCULATE message with coordinate endpoints
PostCalculateCoord ==
    /\ build = "coordinate"
    /\ received + Len(inbox) < MaxRequests
    /\ \E r \in CoordRequests : inbox' = Append(inbox, r)
    /\ UNCHANGED <<build, graph, metadata, loading, received, outbox, calls, hung, pageVars, unitVars>>

\* self.onmessage: the event loop delivers the oldest pending message
OnMessage ==
    /\ build = "penalty"
    /\ ~hung
    /\ inbox # <<>>
    /\ \E h \in { onmessage(graph, Head(inbox), received + 1) } :
        /\ outbox' = outbox \o h.posted
        /\ calls' = h.calls
    /\ inbox' = Tail(inbox)
    /\ received' = received + 1
    /\ UNCHANGED <<build, graph, metadata, loading, hung, pageVars, unitVars>>

OnMessageBasic ==
    /\ build = "basic"
    /\ ~hung
    /\ inbox # <<>>
    /\ \E h \in { onmessageBasic(graph, Head(inbox), received + 1) } :
        /\ outbox' = outbox \o h.posted
        /\ calls' = h.calls
    /\ inbox' = Tail(inbox)
    /\ received' = received + 1
    /\ UNCHANGED <<build, graph, metadata, loading, hung, pageVars, unitVars>>

\* a handler that never returns keeps the worker's only thread: nothing is
\* delivered after it
OnMessageCoord ==
    /\ build = "coordinate"
    /\ ~hung
    /\ inbox # <<>>
    /\ \E h \in { onmessageCoord(graph, metadata, Head(inbox), received + 1) } :
        /\ outbox' = outbox \o h.posted
        /\ calls' = h.calls
        /\ graph' = h.graph
        /\ hung' = h.hung
    /\ inbox' = Tail(inbox)
    /\ received' = received + 1
    /\ UNCHANGED <<build, metadata, loading, pageVars, unitVars>>

Next ==
    \/ LoadGraph
    \/ LoadFail
    \/ PostCalculate
    \/ OnMessage

Spec == Init /\ [][Next]_vars

\* any of the three revisions
NextAll ==
    \/ LoadGraph
    \/ LoadData
    \/ LoadGraphOnly
    \/ LoadFail
    \/ PostCalculate
    \/ PostCalculateCoord
    \/ OnMessage
    \/ OnMessageBasic
    \/ OnMessageCoord

SpecAll == InitAll /\ [][NextAll]_vars

(***************************************************************************)
(* Notions the properties are stated with.                                 *)
(***************************************************************************)
Succeeded(call) == call.result.error = <<>> /\ call.result.path # <<>>

PathOf(call) == call.result.path[1]

\* the message posted for the last delivered CALCULATE
LastMessage == outbox[Len(outbox)]

CarriesRoutes(m) == m.type = "RESULT" /\ m.routes # <<>>

RECURSIVE SumOfWeights(_)
SumOfWeights(path) ==
    IF path = <<>> THEN 0 ELSE path[1].weight + SumOfWeights(Tail(path))

ServiceChanges(path) ==
    Cardinality({ i \in 1..(Len(path) - 1) : path[i].service # path[i + 1].service })

\* the scoring cost of a path as the specification defines it
RECURSIVE ScoringCostFrom(_, _, _)
ScoringCostFrom(path, i, transferPenalty) ==
    IF i > Len(path) THEN 0
    ELSE (IF path[i].service = "WALK" THEN 2 * path[i].weight ELSE path[i].weight)
         + (IF i > 1 /\ path[i - 1].service # path[i].service
            THEN 300 + transferPenalty ELSE 0)
         + ScoringCostFrom(path, i + 1, transferPenalty)

ScoringCost(path, transferPenalty) == ScoringCostFrom(path, 1, transferPenalty)

\* every edge of g a search with these exclusions may use, as a path step
UsableSteps(g, excludedModes) ==
    UNION { UNION { { [from |-> u, to |-> g[u][k].to,
                       service |-> g[u][k].edges[j].service,
                       weight |-> g[u][k].edges[j].weight] :
                      j \in { i \in 1..Len(g[u][k].edges) :
                                LET sv == g[u][k].edges[i].service IN
                                sv = "WALK" \/ getServiceType(sv) \notin excludedModes } } :
                    k \in 1..Len(g[u]) } :
            u \in DOMAIN g }

\* labels <<node, service of the last step, scoring cost>> of the walks of at
\* most k steps from the origin, the cheapest kept for each (node, service)
RECURSIVE WalkLabels(_, _, _, _)
WalkLabels(steps, origin, transferPenalty, k) ==
    IF k = 0 THEN { <<origin, "", 0>> }
    ELSE LET L == WalkLabels(steps, origin, transferPenalty, k - 1)
             X == L \cup { << e.to, e.service,
                              l[3]
                              + (IF e.service = "WALK" THEN 2 * e.weight ELSE e.weight)
                              + (IF l[2] # "" /\ l[2] # e.service
                                 THEN 300 + transferPenalty ELSE 0) >> :
                           <<l, e>> \in { p \in L \X steps : p[1][1] = p[2].from } }
         IN  { l \in X : \A m \in X : (m[1] = l[1] /\ m[2] = l[2]) => l[3] <= m[3] }

MaxWalk == 8

\* the scoring costs of the cheapest origin-to-destination walks, one per
\* arriving service, walks of at least one step
CheapestCosts(g, origin, destination, transferPenalty, excludedModes) ==
    { l[3] : l \in { m \in WalkLabels(UsableSteps(g, excludedModes), origin,
                                      transferPenalty, MaxWalk) :
                        m[1] = destination /\ m[2] # "" } }

(***************************************************************************)
(* The page's presentation functions.  A path is the sequence of steps a   *)
(* worker returned; the page's metadata maps a stop id to its name and     *)
(* position, and a stop the file does not list is not in its domain.       *)
(***************************************************************************)

\* step.type: undefined for a step that carries no such property (the steps
\* of the penalty and basic revisions)
TypeOf(step) == IF "type" \in DOMAIN step THEN step.type ELSE "undefined"

\* metadata[id]?.name || id
NameOrId(meta, id) ==
    IF id \in DOMAIN meta /\ meta[id].name # "" THEN meta[id].name ELSE id

getName(meta, id) ==
    IF id = "Current Location" THEN "Current Location"
    ELSE IF id = "Destination" THEN "Destination"
    ELSE NameOrId(meta, id)

\* OpenLeg leaving the type of the leg unset
OpenLeg_KindDropped(step, meta) ==
    [type |-> "undefined", service |-> step.service,
     startStopId |-> step.from, startStopName |-> getName(meta, step.from),
     endStopId |-> step.to, endStopName |-> getName(meta, step.to),
     stopCount |-> 1, duration |-> step.weight]

\* the leg opened at a step
OpenLeg(step, meta) ==
    [type |-> TypeOf(step), service |-> step.service,
     startStopId |-> step.from, startStopName |-> getName(meta, step.from),
     endStopId |-> step.to, endStopName |-> getName(meta, step.to),
     stopCount |-> 1, duration |-> step.weight]

\* SameLeg comparing the service only
SameLeg_ServiceOnly(step, currentLeg) ==
    step.service = currentLeg.service

\* the condition under which a step continues the current leg
SameLeg(step, currentLeg) ==
    step.service = currentLeg.service /\ TypeOf(step) = currentLeg.type

\* ExtendLeg leaving the duration of the leg as it was
ExtendLeg_DurationKept(currentLeg, step, meta) ==
    [currentLeg EXCEPT !.endStopId = step.to,
                       !.endStopName = getName(meta, step.to),
                       !.stopCount = @ + 1]

\* the current leg after a step was combined into it
ExtendLeg(currentLeg, step, meta) ==
    [currentLeg EXCEPT !.endStopId = step.to,
                       !.endStopName = getName(meta, step.to),
                       !.stopCount = @ + 1,
                       !.duration = @ + step.weight]

\* the loop of formatRoute from index i (1-based), then the final push
RECURSIVE FormatFrom(_, _, _, _, _)
FormatFrom(steps, i, legs, currentLeg, meta) ==
    IF i > Len(steps) THEN Append(legs, currentLeg)
    ELSE IF SameLeg(steps[i], currentLeg)
         THEN FormatFrom(steps, i + 1, legs, ExtendLeg(currentLeg, steps[i], meta), meta)
         ELSE FormatFrom(steps, i + 1, Append(legs, currentLeg),
                         OpenLeg(steps[i], meta), meta)

formatRoute(steps, meta) ==
    IF steps = <<>> THEN <<>>
    ELSE FormatFrom(steps, 2, <<>>, OpenLeg(steps[1], meta), meta)

\* The earlier revision of formatRoute: the type of a leg is derived from its
\* service and a step continues the leg when the service is the same.
OpenLegByService(step, meta) ==
    [type |-> getServiceType(step.service), service |-> step.service,
     startStopId |-> step.from, startStopName |-> NameOrId(meta, step.from),
     endStopId |-> step.to, endStopName |-> NameOrId(meta, step.to),
     stopCount |-> 1, duration |-> step.weight]

RECURSIVE FormatByServiceFrom(_, _, _, _, _)
FormatByServiceFrom(steps, i, legs, currentLeg, meta) ==
    IF i > Len(steps) THEN Append(legs, currentLeg)
    ELSE IF steps[i].service = currentLeg.service
         THEN FormatByServiceFrom(steps, i + 1, legs,
                  [currentLeg EXCEPT !.endStopId = steps[i].to,
                                     !.endStopName = NameOrId(meta, steps[i].to),
                                     !.stopCount = @ + 1,
                                     !.duration = @ + steps[i].weight], meta)
         ELSE FormatByServiceFrom(steps, i + 1, Append(legs, currentLeg),
                                  OpenLegByService(steps[i], meta), meta)

formatRouteByService(steps, meta) ==
    IF steps = <<>> THEN <<>>
    ELSE FormatByServiceFrom(steps, 2, <<>>, OpenLegByService(steps[1], meta), meta)

\* [node.lat, node.lng] of a stop that has metadata
PointOf(meta, id) == <<meta[id].lat, meta[id].lng>>

\* a pushed segment; currentType is always getServiceType(currentService),
\* the two are assigned together
Segment(currentService, currentPoints) ==
    [type |-> getServiceType(currentService), mode |-> getServiceType(currentService),
     service |-> currentService, positions |-> currentPoints]

\* `if (currentPoints.length > 0) segments.push(...)`
PushSegment(segs, currentService, currentPoints) ==
    IF Len(currentPoints) > 0 THEN Append(segs, Segment(currentService, currentPoints))
    ELSE segs

\* the first point of a new segment: metadata[step.from], with the fallback
StartPoint(step, meta) ==
    IF step.from \in DOMAIN meta THEN PointOf(meta, step.from) ELSE PointOf(meta, step.to)

\* the loop of generateSegments from index i (1-based), then the final push
RECURSIVE SegmentsFrom(_, _, _, _, _, _)
SegmentsFrom(steps, i, segs, currentService, currentPoints, meta) ==
    IF i > Len(steps) THEN PushSegment(segs, currentService, currentPoints)
    ELSE IF steps[i].to \notin DOMAIN meta
         THEN SegmentsFrom(steps, i + 1, segs, currentService, currentPoints, meta)
    ELSE IF steps[i].service # currentService
         THEN SegmentsFrom(steps, i + 1, PushSegment(segs, currentService, currentPoints),
                           steps[i].service,
                           <<StartPoint(steps[i], meta), PointOf(meta, steps[i].to)>>, meta)
    ELSE SegmentsFrom(steps, i + 1, segs, currentService,
                      Append(currentPoints, PointOf(meta, steps[i].to)), meta)

generateSegments(steps, meta) ==
    IF steps = <<>> THEN <<>>
    ELSE IF steps[1].from \notin DOMAIN meta THEN <<>>
    ELSE SegmentsFrom(steps, 1, <<>>, steps[1].service,
                      <<PointOf(meta, steps[1].from)>>, meta)

\* currentPoints[currentPoints.length - 1]; <<>> stands for undefined
LastPoint(currentPoints) ==
    IF currentPoints = <<>> THEN <<>> ELSE currentPoints[Len(currentPoints)]

\* The segment loop of the earlier handleRouteSuccess: a new segment starts at
\* the last point collected so far.
RECURSIVE RouteSegmentsFrom(_, _, _, _, _, _)
RouteSegmentsFrom(steps, i, segs, currentService, currentPoints, meta) ==
    LET \* `if (currentPoints.length > 0) segments.push({type, service, positions})`
        pushed == IF Len(currentPoints) > 0
                  THEN Append(segs, [type |-> getServiceType(currentService),
                                     service |-> currentService,
                                     positions |-> currentPoints])
                  ELSE segs
    IN  IF i > Len(steps) THEN pushed
        ELSE IF steps[i].to \notin DOMAIN meta
             THEN RouteSegmentsFrom(steps, i + 1, segs, currentService, currentPoints, meta)
        ELSE IF steps[i].service # currentService
             THEN RouteSegmentsFrom(steps, i + 1, pushed, steps[i].service,
                                    <<LastPoint(currentPoints), PointOf(meta, steps[i].to)>>,
                                    meta)
        ELSE RouteSegmentsFrom(steps, i + 1, segs, currentService,
                               Append(currentPoints, PointOf(meta, steps[i].to)), meta)

\* the segments handleRouteSuccess hands to setRouteSegments; it returns
\* before building any when the path is empty
handleRouteSuccess(steps, meta) ==
    IF steps = <<>> THEN <<>>
    ELSE RouteSegmentsFrom(steps, 1, <<>>, steps[1].service,
                           IF steps[1].from \in DOMAIN meta
                           THEN <<PointOf(meta, steps[1].from)>> ELSE <<>>, meta)

\* Array.from(new Set(legs.map(l => l.type).filter(t => t !== 'WALK'))): the
\* types other than WALK, each once, in the order of their first occurrence
RECURSIVE ModesFrom(_, _, _)
ModesFrom(legs, i, modes) ==
    IF i > Len(legs) THEN modes
    ELSE IF legs[i].type = "WALK" \/ (\E k \in 1..Len(modes) : modes[k] = legs[i].type)
         THEN ModesFrom(legs, i + 1, modes)
    ELSE ModesFrom(legs, i + 1, Append(modes, legs[i].type))

\* legs.filter(l => l.type !== 'WALK').length
TransitLegs(legs) == Cardinality({ i \in 1..Len(legs) : legs[i].type # "WALK" })

Max(a, b) == IF a >= b THEN a ELSE b

\* the summary of one route; now is the clock in seconds since local midnight,
\* the arrival time is shown as hour and minute
Summary(route, legs, now) ==
    [duration |-> (route.totalDuration + 59) \div 60,
     arrivalTime |-> [hour |-> ((now + route.totalDuration) \div 3600) % 24,
                      minute |-> ((now + route.totalDuration) \div 60) % 60],
     modes |-> ModesFrom(legs, 1, <<>>),
     transferCount |-> Max(0, TransitLegs(legs) - 1)]

ProcessedRoute(route, meta, now) ==
    [id |-> route.id, raw |-> route,
     legs |-> formatRoute(route.path, meta),
     segments |-> generateSegments(route.path, meta),
     summary |-> Summary(route, formatRoute(route.path, meta), now)]

processRoutes(rawRoutes, meta, now) ==
    [r \in 1..Len(rawRoutes) |-> ProcessedRoute(rawRoutes[r], meta, now)]

\* the comparator handed to sort
\* Compare without the tie-break by duration
Compare_PrimaryOnly(a, b, sortOption) ==
    IF sortOption = "LESS_TRANSFERS" THEN a.numberOfTransfers - b.numberOfTransfers
    ELSE IF sortOption = "LESS_WALKING" THEN a.walkingDistance - b.walkingDistance
    ELSE a.totalDuration - b.totalDuration

Compare(a, b, sortOption) ==
    IF sortOption = "LESS_TRANSFERS"
    THEN IF a.numberOfTransfers # b.numberOfTransfers
         THEN a.numberOfTransfers - b.numberOfTransfers
         ELSE a.totalDuration - b.totalDuration
    ELSE IF sortOption = "LESS_WALKING"
    THEN IF a.walkingDistance # b.walkingDistance
         THEN a.walkingDistance - b.walkingDistance
         ELSE a.totalDuration - b.totalDuration
    ELSE a.totalDuration - b.totalDuration

\* Array.prototype.sort is stable: each element is inserted after the last
\* one that does not compare greater
RECURSIVE InsertSorted(_, _, _)
InsertSorted(sortedRoutes, route, sortOption) ==
    IF sortedRoutes = <<>> THEN <<route>>
    ELSE IF Compare(route, sortedRoutes[Len(sortedRoutes)], sortOption) < 0
         THEN Append(InsertSorted(SubSeq(sortedRoutes, 1, Len(sortedRoutes) - 1),
                                  route, sortOption),
                     sortedRoutes[Len(sortedRoutes)])
    ELSE Append(sortedRoutes, route)

RECURSIVE SortFrom(_, _, _, _)
SortFrom(list, i, sortedRoutes, sortOption) ==
    IF i > Len(list) THEN sortedRoutes
    ELSE SortFrom(list, i + 1, InsertSorted(sortedRoutes, list[i], sortOption), sortOption)

\* the predicate of routes.filter
KeepsRoute(route, excludedModes) ==
    ~ \E k \in 1..Len(route.segments) :
          /\ route.segments[k].mode # "WALKING"
          /\ route.segments[k].mode \in excludedModes

filterAndSortRoutes(list, excludedModes, sortOption) ==
    SortFrom(SelectSeq(list, LAMBDA route : KeepsRoute(route, excludedModes)),
             1, <<>>, sortOption)

(***************************************************************************)
(* The presentation functions applied to bounded inputs: the page holds    *)
(* one input and one function is applied to it.                            *)
(***************************************************************************)
MaxSteps == 3

MaxRoutes == 3

\* the stops a path runs through, in order
Stops == <<"A", "B", "C", "D", "E", "F">>

StopInfo(id) ==
    CASE id = "A" -> [name |-> "Alpha", lat |-> 1, lng |-> 1]
      [] id = "B" -> [name |-> "",      lat |-> 2, lng |-> 1]
      [] id = "C" -> [name |-> "Gamma", lat |-> 3, lng |-> 2]
      [] id = "D" -> [name |-> "Delta", lat |-> 4, lng |-> 2]
      [] id = "E" -> [name |-> "Eps",   lat |-> 5, lng |-> 3]
      [] id = "F" -> [name |-> "Phi",   lat |-> 6, lng |-> 3]

\* stops_metadata.json: each of the first four stops listed or not
PageMetadataFiles ==
    { [id \in S \cup {"E", "F"} |-> StopInfo(id)] : S \in SUBSET {"A", "B", "C", "D"} }

\* paths as the penalty revision returns them: steps without a type
UntypedEdges == { Edge(service, 1, weight) : service \in {"10", "20", "WALK"},
                                             weight \in {30, 60} }

UntypedPaths ==
    UNION { { [i \in 1..n |-> PathStep([node |-> Stops[i], edge |-> es[i]], Stops[i + 1])] :
                es \in [1..n -> UntypedEdges] } : n \in 0..MaxSteps }

\* paths as the coordinate revision returns them: the walk from the start, up
\* to MaxSteps - 1 typed steps (two kinds share the service code "10"), the
\* walk to the end
TypedEdges == { TypedEdge("BUS", "10", 10, 60), TypedEdge("MRT", "10", 10, 60),
                TypedEdge("WALK", "WALK", 2, 60), TypedEdge("BUS", "20", 10, 60) }

TypedPathOf(es) ==
    <<CoordPathStep([node |-> "__START__", edge |-> TypedEdge("WALK", "Start", 1, 72)], "A")>>
    \o [i \in 1..Len(es) |-> CoordPathStep([node |-> Stops[i], edge |-> es[i]], Stops[i + 1])]
    \o <<CoordPathStep([node |-> Stops[Len(es) + 1],
                        edge |-> TypedEdge("WALK", "End", 1, 72)], "__END__")>>

TypedPaths ==
    UNION { { TypedPathOf(es) : es \in [1..n -> TypedEdges] } : n \in 0..(MaxSteps - 1) }

InputPaths == UntypedPaths \cup TypedPaths

\* the routes handed to filterAndSortRoutes: ids in input order
RouteIds == <<"1", "2", "3", "4", "5">>

RouteProfiles ==
    { [segments |-> <<[mode |-> "BUS"]>>, walkingDistance |-> 100],
      [segments |-> <<[mode |-> "WALK"], [mode |-> "TRAIN"]>>, walkingDistance |-> 500] }

RouteKeys == [profile : RouteProfiles, numberOfTransfers : {0, 1}, totalDuration : {100, 200}]

Route(id, k) ==
    [id |-> id, segments |-> k.profile.segments, totalDuration |-> k.totalDuration,
     numberOfTransfers |-> k.numberOfTransfers,
     walkingDistance |-> k.profile.walkingDistance]

CandidateLists ==
    UNION { { [i \in 1..n |-> Route(RouteIds[i], ks[i])] : ks \in [1..n -> RouteKeys] } :
            n \in 0..MaxRoutes }

SortOptions == {"FASTEST", "LESS_TRANSFERS", "LESS_WALKING"}

ExcludedSets == { {}, {"BUS"}, {"WALK"} }

\* the page holds a path and its metadata; the worker is not running
InitFormat ==
    /\ WorkerInit /\ build = "penalty"
    /\ UnitsIdle
    /\ inputPath \in InputPaths
    /\ pageMetadata \in PageMetadataFiles
    /\ applied = ""
    /\ instructions = <<>>
    /\ routeSegments = <<>>
    /\ processedRoutes = <<>>
    /\ candidates = <<>>
    /\ excludedSet = {}
    /\ activeSort = "FASTEST"
    /\ shownRoutes = <<>>

FormatRoute ==
    /\ applied = ""
    /\ applied' = "formatRoute"
    /\ instructions' = formatRoute(inputPath, pageMetadata)
    /\ UNCHANGED <<workerVars, unitVars, inputPath, pageMetadata, routeSegments, processedRoutes,
                   candidates, excludedSet, activeSort, shownRoutes>>

FormatRouteByService ==
    /\ applied = ""
    /\ applied' = "formatRouteByService"
    /\ instructions' = formatRouteByService(inputPath, pageMetadata)
    /\ UNCHANGED <<workerVars, unitVars, inputPath, pageMetadata, routeSegments, processedRoutes,
                   candidates, excludedSet, activeSort, shownRoutes>>

GenerateSegments ==
    /\ applied = ""
    /\ applied' = "generateSegments"
    /\ routeSegments' = generateSegments(inputPath, pageMetadata)
    /\ UNCHANGED <<workerVars, unitVars, inputPath, pageMetadata, instructions, processedRoutes,
                   candidates, excludedSet, activeSort, shownRoutes>>

\* the earlier page: handleRouteSuccess(result.path, result.totalDuration)
\* returns at once on an empty path, else sets the segments and the legs
HandleRouteSuccess ==
    /\ applied = ""
    /\ inputPath # <<>>
    /\ applied' = "handleRouteSuccess"
    /\ routeSegments' = handleRouteSuccess(inputPath, pageMetadata)
    /\ instructions' = formatRoute(inputPath, pageMetadata)
    /\ UNCHANGED <<workerVars, unitVars, inputPath, pageMetadata, processedRoutes,
                   candidates, excludedSet, activeSort, shownRoutes>>

\* the clock when processRoutes runs, in seconds since local midnight
Clock == {0, 86399}

\* the later page: processRoutes(result.routes, metadata) on the route the
\* worker returned for the path
ProcessRoutes ==
    /\ applied = ""
    /\ \E now \in Clock :
        processedRoutes' =
            processRoutes(<<RouteOption("fastest", "Fastest",
                                        [path |-> <<inputPath>>,
                                         totalDuration |-> SumOfWeights(inputPath)])>>,
                          pageMetadata, now)
    /\ applied' = "processRoutes"
    /\ UNCHANGED <<workerVars, unitVars, inputPath, pageMetadata, instructions, routeSegments,
                   candidates, excludedSet, activeSort, shownRoutes>>

NextFormat ==
    \/ FormatRoute
    \/ FormatRouteByService
    \/ GenerateSegments
    \/ HandleRouteSuccess
    \/ ProcessRoutes

SpecFormat == InitFormat /\ [][NextFormat]_vars

\* the page holds candidate routes, a set of excluded modes and a sort option
InitRank ==
    /\ WorkerInit /\ build = "penalty"
    /\ UnitsIdle
    /\ inputPath = <<>>
    /\ pageMetadata = <<>>
    /\ applied = ""
    /\ instructions = <<>>
    /\ routeSegments = <<>>
    /\ processedRoutes = <<>>
    /\ candidates \in CandidateLists
    /\ excludedSet \in ExcludedSets
    /\ activeSort \in SortOptions
    /\ shownRoutes = <<>>

FilterAndSortRoutes ==
    /\ applied = ""
    /\ applied' = "filterAndSortRoutes"
    /\ shownRoutes' = filterAndSortRoutes(candidates, excludedSet, activeSort)
    /\ UNCHANGED <<workerVars, unitVars, inputPath, pageMetadata, instructions, routeSegments,
                   processedRoutes, candidates, excludedSet, activeSort>>

NextRank == FilterAndSortRoutes

SpecRank == InitRank /\ [][NextRank]_vars

(***************************************************************************)
(* A MinHeap used on its own: any sequence of push and pop from the empty  *)
(* heap of the constructor.                                                *)
(***************************************************************************)
MaxHeap == 4

HeapElements == {"A", "B"}

HeapPriorities == 0..2

HeapEntries == [element : HeapElements, priority : HeapPriorities]

InitHeap ==
    /\ PageIdle
    /\ WorkerInit /\ build = "penalty"
    /\ UnitsIdle

Push ==
    /\ length(minHeap) < MaxHeap
    /\ \E element \in HeapElements, priority \in HeapPriorities :
           minHeap' = push(minHeap, element, priority)
    /\ applied' = "push"
    /\ UNCHANGED <<workerVars, popped, query, search, searching, inputPath, pageMetadata,
                   instructions, routeSegments, processedRoutes, candidates,
                   excludedSet, activeSort, shownRoutes>>

Pop ==
    /\ \E r \in { pop(minHeap) } :
           /\ popped' = r.min
           /\ minHeap' = r.heap
    /\ applied' = "pop"
    /\ UNCHANGED <<workerVars, query, search, searching, inputPath, pageMetadata,
                   instructions, routeSegments, processedRoutes, candidates,
                   excludedSet, activeSort, shownRoutes>>

NextHeap == Push \/ Pop

SpecHeap == InitHeap /\ [][NextHeap]_vars

(***************************************************************************)
(* The route list of the later MapComponent: sortedRoutes, the useMemo     *)
(* over processedRoutes and activeSort.                                    *)
(***************************************************************************)
CompareDisplayed(a, b, sortOption) ==
    IF sortOption = "LESS_TRANSFERS"
    THEN a.summary.transferCount - b.summary.transferCount
    ELSE IF sortOption = "LESS_WALKING"
    THEN a.raw.totalDuration - b.raw.totalDuration
    ELSE a.raw.totalDuration - b.raw.totalDuration

\* the stable sort, with the comparator of sortedRoutes
RECURSIVE InsertDisplayed(_, _, _)
InsertDisplayed(sorted, route, sortOption) ==
    IF sorted = <<>> THEN <<route>>
    ELSE IF CompareDisplayed(route, sorted[Len(sorted)], sortOption) < 0
         THEN Append(InsertDisplayed(SubSeq(sorted, 1, Len(sorted) - 1), route, sortOption),
                     sorted[Len(sorted)])
    ELSE Append(sorted, route)

RECURSIVE SortDisplayedFrom(_, _, _, _)
SortDisplayedFrom(list, i, sorted, sortOption) ==
    IF i > Len(list) THEN sorted
    ELSE SortDisplayedFrom(list, i + 1, InsertDisplayed(sorted, list[i], sortOption),
                           sortOption)

sortedRoutes(processed, sortOption) ==
    IF Len(processed) = 0 THEN <<>>
    ELSE SortDisplayedFrom(processed, 1, <<>>, sortOption)

\* the routes a response carries: one bus, two buses, a bus and a walk, each
\* with one of two durations
DisplayPaths ==
    { TypedPathOf(<<TypedEdge("BUS", "10", 10, 60)>>),
      TypedPathOf(<<TypedEdge("BUS", "10", 10, 60), TypedEdge("BUS", "20", 10, 60)>>),
      TypedPathOf(<<TypedEdge("BUS", "10", 10, 60), TypedEdge("WALK", "WALK", 2, 60)>>) }

DisplayKeys == [path : DisplayPaths, totalDuration : {300, 400}]

AllStopsMetadata == [id \in {"A", "B", "C", "D", "E", "F"} |-> StopInfo(id)]

ProcessedLists ==
    UNION { { processRoutes([i \in 1..n |->
                                RouteOption(RouteIds[i], "",
                                            [path |-> <<ks[i].path>>,
                                             totalDuration |-> ks[i].totalDuration])],
                            AllStopsMetadata, 0) :
                ks \in [1..n -> DisplayKeys] } : n \in 0..MaxRoutes }

InitDisplay ==
    /\ WorkerInit /\ build = "coordinate"
    /\ UnitsIdle
    /\ inputPath = <<>>
    /\ pageMetadata = AllStopsMetadata
    /\ applied = ""
    /\ instructions = <<>>
    /\ routeSegments = <<>>
    /\ processedRoutes \in ProcessedLists
    /\ candidates = <<>>
    /\ excludedSet = {}
    /\ activeSort \in SortOptions
    /\ shownRoutes = <<>>

SortRoutes ==
    /\ applied = ""
    /\ applied' = "sortedRoutes"
    /\ shownRoutes' = sortedRoutes(processedRoutes, activeSort)
    /\ UNCHANGED <<workerVars, unitVars, inputPath, pageMetadata, instructions, routeSegments,
                   processedRoutes, candidates, excludedSet, activeSort>>

SpecDisplay == InitDisplay /\ [][SortRoutes]_vars

(***************************************************************************)
(* One findPath search followed iteration by iteration: `search` holds the *)
(* locals of the call (distances, previous, pq, visited, iterations), one  *)
(* step is one pass through the body of the while loop.                    *)
(***************************************************************************)
LoopExit(s) == [state |-> s, running |-> FALSE]

LoopNext(s) == [state |-> s, running |-> TRUE]

\* the while condition and one pass through the body, penalty revision
Iteration(g, endNode, transferPenalty, excludedModes, s) ==
    IF Len(s.pq) = 0 THEN LoopExit(s)
    ELSE IF s.iterations + 1 > MAX_ITERATIONS
         THEN LoopExit([s EXCEPT !.iterations = s.iterations + 1,
                                 !.error = <<"Computation timed out">>])
    ELSE LET current == s.pq[1]
             u == current.element
             s1 == [s EXCEPT !.iterations = s.iterations + 1, !.pq = popRest(s.pq)]
         IN  IF u \in DOMAIN s.distances /\ current.priority > s.distances[u]
             THEN LoopNext(s1)
             ELSE IF u = endNode THEN LoopExit(s1)
             ELSE IF u \in s.visited THEN LoopNext(s1)
             ELSE IF ~hasNode(g, u)
             THEN LoopNext([s1 EXCEPT !.visited = s.visited \cup {u}])
             ELSE LoopNext(Relax([s1 EXCEPT !.visited = s.visited \cup {u}], u,
                                 current.priority,
                                 IF u \in DOMAIN s.previous
                                 THEN <<s.previous[u].edge.service>> ELSE <<>>,
                                 g[u], 1, transferPenalty, excludedModes))

\* the locals of the coordinate findPath before its loop
CoordInitialSearch(g) ==
    [graph |-> g,
     distances |-> ("__START__" :> 0),
     previous |-> <<>>,
     pq |-> push(<<>>, "__START__", 0),
     visited |-> {},
     iterations |-> 0,
     error |-> <<>>]

\* the neighbours of u the coordinate revision relaxes, in graph g2
CoordNeighbors(g2, u, startNeighbors) ==
    IF u = "__START__" THEN StartEntries(startNeighbors)
    ELSE IF hasNode(g2, u) THEN g2[u]
    ELSE <<>>

\* the while condition and one pass through the body, coordinate revision
CoordIteration(startNeighbors, endNeighbors, s) ==
    IF Len(s.pq) = 0 THEN LoopExit(s)
    ELSE IF s.iterations + 1 > COORD_MAX_ITERATIONS
         THEN LoopExit([s EXCEPT !.iterations = s.iterations + 1, !.error = <<"Timeout">>])
    ELSE LET current == s.pq[1]
             u == current.element
             s1 == [s EXCEPT !.iterations = s.iterations + 1, !.pq = popRest(s.pq)]
         IN  IF u \in DOMAIN s.distances /\ current.priority > s.distances[u]
             THEN LoopNext(s1)
             ELSE IF u = "__END__" THEN LoopExit(s1)
             ELSE IF u \in s.visited THEN LoopNext(s1)
             ELSE LoopNext(CoordRelax(
                      [s1 EXCEPT !.visited = s.visited \cup {u},
                                 !.graph = GraphAfterNeighbors(s.graph, u, endNeighbors)],
                      u, current.priority,
                      CoordNeighbors(GraphAfterNeighbors(s.graph, u, endNeighbors), u,
                                     startNeighbors),
                      1))

\* the penalties findPath is called with: fastest and direct
TransferPenalties == {0, DIRECT_ROUTE_PENALTY}

PenaltyQueries ==
    { [graph |-> g, startNode |-> "A", endNode |-> "D", transferPenalty |-> t,
       excludedModes |-> x] :
        g \in GraphFiles, t \in TransferPenalties, x \in ExclusionSets }

CoordQueries ==
    { [graph |-> g, startNeighbors |-> findNearestNodes(<<meta>>, 0),
       endNeighbors |-> findNearestNodes(<<meta>>, e)] :
        g \in CoordGraphFiles, meta \in MetadataFiles, e \in {50, 53} }

InitSearch ==
    /\ PageIdle
    /\ WorkerInit /\ build \in {"penalty", "coordinate"}
    /\ minHeap = <<>>
    /\ popped = <<>>
    /\ query \in (IF build = "penalty" THEN PenaltyQueries ELSE CoordQueries)
    /\ search = (IF build = "penalty" THEN InitialSearch(query.startNode)
                                       ELSE CoordInitialSearch(query.graph))
    /\ searching = TRUE

SearchIteration ==
    /\ build = "penalty" /\ searching
    /\ \E r \in { Iteration(query.graph, query.endNode, query.transferPenalty,
                               query.excludedModes, search) } :
           /\ search' = r.state
           /\ searching' = r.running
    /\ UNCHANGED <<workerVars, pageVars, minHeap, popped, query>>

CoordSearchIteration ==
    /\ build = "coordinate" /\ searching
    /\ \E r \in { CoordIteration(query.startNeighbors, query.endNeighbors, search) } :
           /\ search' = r.state
           /\ searching' = r.running
    /\ UNCHANGED <<workerVars, pageVars, minHeap, popped, query>>

NextSearch == SearchIteration \/ CoordSearchIteration

SpecSearch == InitSearch /\ [][NextSearch]_vars

\* the steps of SpecSearch leave the search where the while loops leave it
SearchAgrees ==
    ~searching =>
        IF build = "penalty"
        THEN search = SearchLoop(query.graph, query.endNode, query.transferPenalty,
                                 query.excludedModes, InitialSearch(query.startNode))
        ELSE search = CoordSearchLoop(query.startNeighbors, query.endNeighbors,
                                      CoordInitialSearch(query.graph))

C2_TotalDurationIsSumOfWeights ==
    \A c \in 1..Len(calls) :
        Succeeded(calls[c]) =>
            calls[c].result.totalDuration = SumOfWeights(PathOf(calls[c]))

(***************************************************************************)
(* C3.  For every exclusion set E within {BUS, MRT, LRT} and every route   *)
(* of a CALCULATE response, no step whose service is not WALK has          *)
(* getServiceType(service) in E.                                           *)
(***************************************************************************)
C3_NoExcludedModeInRoutes ==
    (build = "penalty" /\ calls # <<>> /\ CarriesRoutes(LastMessage)) =>
        \A r \in 1..Len(LastMessage.routes[1]) :
            \A i \in 1..Len(LastMessage.routes[1][r].path) :
                LET service == LastMessage.routes[1][r].path[i].service IN
                service # "WALK" =>
                    getServiceType(service) \notin calls[1].excludedModes

\* a response with a route of at least one transit step, to a request whose
\* exclusions remove a step the unrestricted search would take
C3_Witness ==
    /\ build = "penalty" /\ calls # <<>> /\ CarriesRoutes(LastMessage)
    /\ calls[1].excludedModes # {}
    /\ \E i \in 1..Len(LastMessage.routes[1][1].path) :
            LastMessage.routes[1][1].path[i].service # "WALK"
    /\ LET free == findPath(graph, calls[1].origin, calls[1].destination, 0, {}) IN
        /\ free.path # <<>>
        /\ \E i \in 1..Len(free.path[1]) :
                /\ free.path[1][i].service # "WALK"
                /\ getServiceType(free.path[1][i].service) \in calls[1].excludedModes

(***************************************************************************)
(* C4.  The path findPath returns is optimal for the scoring cost: no      *)
(* origin-to-destination path over non-excluded edges has a smaller sum of *)
(* effective weights (WALK doubled) plus 300 + transferPenalty per service *)
(* change.                                                                 *)
(***************************************************************************)
C4_ReturnedPathIsOptimal ==
    build = "penalty" =>
        \A c \in 1..Len(calls) :
            (Succeeded(calls[c]) /\ PathOf(calls[c]) # <<>>) =>
                \A cost \in CheapestCosts(graph[1], calls[c].origin,
                                          calls[c].destination,
                                          calls[c].transferPenalty,
                                          calls[c].excludedModes) :
                    ScoringCost(PathOf(calls[c]), calls[c].transferPenalty) <= cost

(***************************************************************************)
(* C5.  On the fixture graph findPath(A, D) with transferPenalty 0 and no  *)
(* exclusions returns A->B(10), B->C(10), C->D(20), totalDuration 270.     *)
(***************************************************************************)
Step(from, to, service, direction, weight) ==
    [from |-> from, to |-> to, service |-> service, direction |-> direction,
     weight |-> weight]

FixtureQueryAnswered ==
    /\ build = "penalty"
    /\ graph = <<FixtureGraph>>
    /\ calls # <<>>
    /\ calls[1].origin = "A" /\ calls[1].destination = "D"
    /\ calls[1].transferPenalty = 0 /\ calls[1].excludedModes = {}

C5_FixtureFastestAsStated ==
    FixtureQueryAnswered =>
        /\ calls[1].result.error = <<>>
        /\ calls[1].result.path =
              << << Step("A", "B", "10", 1, 60), Step("B", "C", "10", 1, 120),
                    Step("C", "D", "20", 1, 90) >> >>
        /\ calls[1].result.totalDuration = 270

\* C5 as amended: the fixture query returns A->B(10), B->D(30), totalDuration 240
C5_FixtureFastest ==
    FixtureQueryAnswered =>
        /\ calls[1].result.error = <<>>
        /\ calls[1].result.path =
              << << Step("A", "B", "10", 1, 60), Step("B", "D", "30", 1, 180) >> >>
        /\ calls[1].result.totalDuration = 240

C5_Witness == FixtureQueryAnswered /\ Succeeded(calls[1])

(***************************************************************************)
(* C6.  A RESULT that carries routes lists 'fastest' first, and a second   *)
(* route 'direct' exactly when the search with transferPenalty 600         *)
(* succeeds and its path differs from the fastest path in length or in the *)
(* (from, to, service) of some step; direction plays no part.              *)
(***************************************************************************)
Differ(pathA, pathB) ==
    \/ Len(pathA) # Len(pathB)
    \/ \E i \in 1..Len(pathA) :
          <<pathA[i].from, pathA[i].to, pathA[i].service>>
              # <<pathB[i].from, pathB[i].to, pathB[i].service>>

C6_FastestFirstDirectIfDistinct ==
    (build = "penalty" /\ calls # <<>> /\ CarriesRoutes(LastMessage)) =>
        LET routes == LastMessage.routes[1] IN
        /\ Len(calls) = 2
        /\ calls[1].transferPenalty = 0
        /\ calls[2].transferPenalty = 600
        /\ Len(routes) \in {1, 2}
        /\ routes[1].id = "fastest"
        /\ routes[1].path = PathOf(calls[1])
        /\ Len(routes) = 2 <=>
              (Succeeded(calls[2]) /\ Differ(PathOf(calls[1]), PathOf(calls[2])))
        /\ Len(routes) = 2 =>
              (routes[2].id = "direct" /\ routes[2].path = PathOf(calls[2]))

\* a response with both routes, the two paths of the same length over the same
\* nodes (they differ in a service only)
C6_Witness ==
    /\ build = "penalty" /\ calls # <<>> /\ CarriesRoutes(LastMessage)
    /\ Len(LastMessage.routes[1]) = 2
    /\ Len(LastMessage.routes[1][1].path) = Len(LastMessage.routes[1][2].path)
    /\ \A i \in 1..Len(LastMessage.routes[1][1].path) :
          /\ LastMessage.routes[1][1].path[i].from = LastMessage.routes[1][2].path[i].from
          /\ LastMessage.routes[1][1].path[i].to = LastMessage.routes[1][2].path[i].to

(***************************************************************************)
(* C7.  When the fastest search returns an error the response is a single  *)
(* RESULT carrying that error and no routes, and the direct search is not  *)
(* run; when only the direct search fails the response still carries the   *)
(* fastest route.                                                          *)
(***************************************************************************)
C7_FastestFailureFailsRequest ==
    (build = "penalty" /\ calls # <<>>) =>
        /\ Len(outbox) = received
        /\ calls[1].transferPenalty = 0
        /\ calls[1].result.error # <<>> =>
              /\ Len(calls) = 1
              /\ LastMessage.type = "RESULT"
              /\ LastMessage.error = calls[1].result.error
              /\ LastMessage.routes = <<>>
        /\ (calls[1].result.error = <<>> /\ Len(calls) = 2
            /\ calls[2].result.error # <<>>) =>
              /\ LastMessage.type = "RESULT"
              /\ LastMessage.error = <<>>
              /\ LastMessage.routes # <<>>
              /\ Len(LastMessage.routes[1]) = 1
              /\ LastMessage.routes[1][1].id = "fastest"
              /\ LastMessage.routes[1][1].path = PathOf(calls[1])

\* an earlier request failed in its fastest search, and the last request
\* succeeded in its fastest search and failed in its direct search
C7_Witness ==
    /\ build = "penalty"
    /\ Len(outbox) = 2
    /\ outbox[1].type = "RESULT" /\ outbox[1].error # <<>>
    /\ Len(calls) = 2
    /\ Succeeded(calls[1])
    /\ calls[2].result.error # <<>>

(***************************************************************************)
(* C8.  Adding the direct-route penalty does not decrease the number of    *)
(* service changes in the path findPath returns.                           *)
(***************************************************************************)
C8_PenaltyDoesNotDecreaseChanges ==
    (build = "penalty" /\ Len(calls) = 2 /\ Succeeded(calls[1]) /\ Succeeded(calls[2])) =>
        ServiceChanges(PathOf(calls[2])) >= ServiceChanges(PathOf(calls[1]))

\* the services an expansion may have arrived by
ServicesOf(g) ==
    { e.service : e \in UsableSteps(g, {}) }

\* C8 as amended.  The penalty can lower the number of service changes of
\* the returned path; what it guarantees is local to one relaxation: for the
\* same node, incoming service and neighbour, the candidate cost with
\* penalty 600 is never below the cost with penalty 0, and when the edge
\* selected with penalty 0 keeps the incoming service, the same edge is
\* selected with penalty 600.
C8_PenaltyKeepsSameServiceChoice ==
    (build = "penalty" /\ Len(calls) = 2) =>
        \A u \in DOMAIN graph[1] : \A k \in 1..Len(graph[1][u]) :
            \A sv \in ServicesOf(graph[1]) :
                LET edges == graph[1][u][k].edges
                    best0 == BestEdge(edges, <<sv>>, 0, calls[1].excludedModes)
                    best600 == BestEdge(edges, <<sv>>, DIRECT_ROUTE_PENALTY,
                                        calls[1].excludedModes)
                IN  /\ (best0 = <<>>) <=> (best600 = <<>>)
                    /\ best0 # <<>> => best0[1].cost <= best600[1].cost
                    /\ (best0 # <<>> /\ best0[1].edge.service = sv) => best600 = best0

\* both searches succeeded and the direct path has fewer service changes, on
\* a graph where a same-service edge wins against a parallel edge of smaller
\* raw weight
C8_Witness ==
    /\ build = "penalty" /\ Len(calls) = 2
    /\ Succeeded(calls[1]) /\ Succeeded(calls[2])
    /\ ServiceChanges(PathOf(calls[2])) < ServiceChanges(PathOf(calls[1]))
    /\ \E u \in DOMAIN graph[1] : \E k \in 1..Len(graph[1][u]) :
         \E sv \in ServicesOf(graph[1]) :
            LET edges == graph[1][u][k].edges
                best0 == BestEdge(edges, <<sv>>, 0, calls[1].excludedModes)
            IN  /\ best0 # <<>>
                /\ best0[1].edge.service = sv
                /\ \E j \in 1..Len(edges) : edges[j].weight < best0[1].edge.weight

(***************************************************************************)
(* C9.  The worker posts exactly one response per delivered CALCULATE      *)
(* message, in the order the messages were received.                       *)
(***************************************************************************)
C9_OneResponsePerRequestInOrder ==
    /\ Len(outbox) = received
    /\ \A i \in 1..Len(outbox) : outbox[i].re = i

(***************************************************************************)
(* C10.  Every error of a CALCULATE request, that of a request received    *)
(* while the graph is not loaded included, reaches the host as the error   *)
(* field of a RESULT message.                                              *)
(***************************************************************************)
C10_ErrorsArriveInResult ==
    \A i \in 1..Len(outbox) : outbox[i].error # <<>> => outbox[i].type = "RESULT"

\* C10 as amended, of the penalty and the basic worker: a CALCULATE delivered
\* while graph is null is answered by an ERROR message with error
\* 'Graph not ready' and no findPath call; any other is answered by a RESULT
\* whose error is the error of the (first) findPath call, absent when it
\* succeeded.
C10_ErrorsReachHost ==
    [][ (build \in {"penalty", "basic"} /\ received' = received + 1) =>
            IF graph = <<>>
            THEN /\ calls' = <<>>
                 /\ outbox' = Append(outbox, Message("ERROR", <<"Graph not ready">>,
                                                     <<>>, received'))
            ELSE /\ calls' # <<>>
                 /\ Len(outbox') = Len(outbox) + 1
                 /\ outbox'[Len(outbox')].type = "RESULT"
                 /\ outbox'[Len(outbox')].error = calls'[1].result.error ]_vars

\* a request answered before the graph was loaded and a later one whose
\* search failed
C10_Witness ==
    /\ build \in {"penalty", "basic"}
    /\ Len(outbox) = 2
    /\ outbox[1].type = "ERROR" /\ outbox[1].error = <<"Graph not ready">>
    /\ outbox[2].type = "RESULT" /\ outbox[2].error # <<>>
    /\ calls # <<>> /\ calls[1].result.error = outbox[2].error

(***************************************************************************)
(* C11.  Once the graph is loaded no findPath call changes it: every       *)
(* node's adjacency (neighbour keys and edge lists) stays as loaded, in    *)
(* the coordinate revision too.                                            *)
(***************************************************************************)
C11_GraphNeverChanges ==
    [][graph # <<>> => graph' = graph]_vars

\* the states in which `instructions` holds the legs of inputPath
LegsBuilt == applied \in {"formatRoute", "formatRouteByService", "handleRouteSuccess"}

RECURSIVE SumOf(_, _)
SumOf(seq, field) ==
    IF seq = <<>> THEN 0 ELSE seq[1][field] + SumOf(Tail(seq), field)

(***************************************************************************)
(* C12.  For every path, the legs formatRoute returns have durations that  *)
(* sum to the sum of the weights of the steps and stopCounts that sum to   *)
(* the number of steps, in both revisions of formatRoute.                  *)
(***************************************************************************)
C12_LegsKeepDurationAndStops ==
    LegsBuilt =>
        /\ SumOf(instructions, "duration") = SumOf(inputPath, "weight")
        /\ SumOf(instructions, "stopCount") = Len(inputPath)

\* a path of three steps compacted into two legs, one of them of two steps
\* with different weights
C12_Witness ==
    /\ applied = "formatRoute"
    /\ Len(inputPath) = 3 /\ Len(instructions) = 2
    /\ instructions[1].stopCount = 2
    /\ inputPath[1].weight # inputPath[2].weight

\* the kind of a step: the type it carries, else the one its service is
\* classified as; the earlier formatRoute knows only the latter
KindOf(step) ==
    IF applied # "formatRouteByService" /\ "type" \in DOMAIN step THEN step.type
    ELSE getServiceType(step.service)

\* the index of the leg that holds step i, counting the steps leg by leg
RECURSIVE LegOf(_, _, _)
LegOf(legs, i, k) ==
    IF i <= legs[k].stopCount THEN k ELSE LegOf(legs, i - legs[k].stopCount, k + 1)

(***************************************************************************)
(* C13.  The legs of formatRoute are the maximal runs keyed by (kind,      *)
(* service): two consecutive steps are in the same leg exactly when they   *)
(* have the same kind and the same service, so steps with one service      *)
(* string and different kinds are never merged; the paths of the worker,   *)
(* whose steps carry no type, included.                                    *)
(***************************************************************************)
C13_LegsAreRunsOfKindAndService ==
    LegsBuilt =>
        \A i \in 1..(Len(inputPath) - 1) :
            (LegOf(instructions, i, 1) = LegOf(instructions, i + 1, 1))
                <=> /\ KindOf(inputPath[i]) = KindOf(inputPath[i + 1])
                    /\ inputPath[i].service = inputPath[i + 1].service

\* two consecutive steps with the service code "10", one by bus and one by
\* train, formatted into two legs
C13_Witness ==
    /\ applied = "formatRoute"
    /\ \E i \in 1..(Len(inputPath) - 1) :
        /\ inputPath[i].service = inputPath[i + 1].service
        /\ TypeOf(inputPath[i]) = "BUS" /\ TypeOf(inputPath[i + 1]) = "MRT"
        /\ LegOf(instructions, i, 1) + 1 = LegOf(instructions, i + 1, 1)

\* the states in which `routeSegments` holds the segments of inputPath
SegmentsBuilt == applied \in {"generateSegments", "handleRouteSuccess"}

(***************************************************************************)
(* C14.  For every path and every metadata map, stops without metadata     *)
(* included, the segments are continuous: the first position of segment    *)
(* i + 1 is the last position of segment i.                                *)
(***************************************************************************)
C14_SegmentsAreContinuous ==
    SegmentsBuilt =>
        \A i \in 1..(Len(routeSegments) - 1) :
            routeSegments[i + 1].positions[1] = LastPoint(routeSegments[i].positions)

(***************************************************************************)
(* C15.  No segment generateSegments returns has fewer than two positions. *)
(***************************************************************************)
C15_NoSegmentOfOnePoint ==
    applied = "generateSegments" =>
        \A i \in 1..Len(routeSegments) : Len(routeSegments[i].positions) >= 2

\* the steps of the path whose `to` has metadata
StepsWithPoint == { i \in 1..Len(inputPath) : inputPath[i].to \in DOMAIN pageMetadata }

(***************************************************************************)
(* C16.  Stops without metadata never make generateSegments give up the    *)
(* route: whenever some step's `to` has metadata the result is not empty   *)
(* and the point of each such step is a position of some segment, also     *)
(* when the `from` of the first step has no metadata.                      *)
(***************************************************************************)
C16_MissingMetadataNeverAborts ==
    (applied = "generateSegments" /\ StepsWithPoint # {}) =>
        /\ routeSegments # <<>>
        /\ \A i \in StepsWithPoint :
            \E k \in 1..Len(routeSegments) :
                \E j \in 1..Len(routeSegments[k].positions) :
                    routeSegments[k].positions[j] = PointOf(pageMetadata, inputPath[i].to)

\* the keys of the chosen option: the primary one, then the duration
PrimaryKey(route, sortOption) ==
    IF sortOption = "LESS_TRANSFERS" THEN route.numberOfTransfers
    ELSE IF sortOption = "LESS_WALKING" THEN route.walkingDistance
    ELSE route.totalDuration

\* the position of a route in the input list
InputIndex(route) == CHOOSE i \in 1..Len(candidates) : candidates[i].id = route.id

(***************************************************************************)
(* C17.  filterAndSortRoutes returns the surviving routes ordered by the   *)
(* chosen option: ascending primary key (totalDuration, numberOfTransfers  *)
(* or walkingDistance), ties by ascending totalDuration, and routes equal  *)
(* on both keep their input order.                                         *)
(***************************************************************************)
C17_StableOrderByOption ==
    applied = "filterAndSortRoutes" =>
        /\ Len(shownRoutes) =
                Cardinality({ i \in 1..Len(candidates) : KeepsRoute(candidates[i], excludedSet) })
        /\ \A i \in 1..Len(candidates) :
                KeepsRoute(candidates[i], excludedSet) =>
                    \E k \in 1..Len(shownRoutes) : shownRoutes[k] = candidates[i]
        /\ \A i, j \in 1..Len(shownRoutes) :
            i < j =>
                LET a == shownRoutes[i]
                    b == shownRoutes[j]
                IN  \/ PrimaryKey(a, activeSort) < PrimaryKey(b, activeSort)
                    \/ /\ PrimaryKey(a, activeSort) = PrimaryKey(b, activeSort)
                       /\ a.totalDuration < b.totalDuration
                    \/ /\ PrimaryKey(a, activeSort) = PrimaryKey(b, activeSort)
                       /\ a.totalDuration = b.totalDuration
                       /\ InputIndex(a) < InputIndex(b)

\* three routes with the same number of transfers sorted by LESS_TRANSFERS:
\* the third, the shortest, comes first and the two equal ones keep their order
C17_Witness ==
    /\ applied = "filterAndSortRoutes"
    /\ activeSort = "LESS_TRANSFERS"
    /\ Len(candidates) = 3 /\ Len(shownRoutes) = 3
    /\ \A i \in 1..3 : candidates[i].numberOfTransfers = 1
    /\ candidates[1].totalDuration = 200 /\ candidates[2].totalDuration = 200
    /\ shownRoutes[1].id = "3" /\ shownRoutes[2].id = "1" /\ shownRoutes[3].id = "2"

(***************************************************************************)
(* C18.  filterAndSortRoutes keeps a route exactly when none of its        *)
(* segments other than walking ones has a mode in excludedModes; a walking *)
(* segment (mode WALK) never removes a route, whatever excludedModes holds.*)
(***************************************************************************)
C18_WalkingNeverRemovesRoute ==
    applied = "filterAndSortRoutes" =>
        \A i \in 1..Len(candidates) :
            (\E k \in 1..Len(shownRoutes) : shownRoutes[k] = candidates[i])
                <=> ~ \E n \in 1..Len(candidates[i].segments) :
                        /\ candidates[i].segments[n].mode # "WALK"
                        /\ candidates[i].segments[n].mode \in excludedSet

\* the legs of a processed route that are not walking legs
NonWalkingLegs(route) ==
    Cardinality({ k \in 1..Len(route.legs) : route.legs[k].service # "WALK" })

(***************************************************************************)
(* C19.  For every route the worker returns (steps as part_004 builds      *)
(* them) and processRoutes processes, summary.transferCount is             *)
(* max(0, n - 1), n the number of legs that are not walking legs: a leg of *)
(* service WALK is never counted as a transit leg.                         *)
(***************************************************************************)
C19_TransferCountSkipsWalking ==
    (applied = "processRoutes" /\ inputPath \in UntypedPaths) =>
        \A r \in 1..Len(processedRoutes) :
            processedRoutes[r].summary.transferCount
                = Max(0, NonWalkingLegs(processedRoutes[r]) - 1)

\* the nodes of a graph: its keys and the neighbours its edges lead to
NodesOf(g) ==
    DOMAIN g \cup UNION { { g[u][k].to : k \in 1..Len(g[u]) } : u \in DOMAIN g }

(***************************************************************************)
(* C20.  With the graph loaded, a findPath call whose origin is not a node *)
(* of the graph returns the unknown-origin error; otherwise a call whose   *)
(* destination is not a node returns the unknown-destination error.  In    *)
(* both cases the result carries no path.                                  *)
(***************************************************************************)
C20_UnknownEndpointsRejected ==
    [][ (build = "penalty" /\ received' = received + 1 /\ graph # <<>>) =>
            \A i \in 1..Len(calls') :
                LET c == calls'[i] IN
                /\ c.origin \notin NodesOf(graph[1]) =>
                        /\ c.result.error = <<"Start Node " \o c.origin \o " not found">>
                        /\ c.result.path = <<>>
                /\ (c.origin \in NodesOf(graph[1])
                    /\ c.destination \notin NodesOf(graph[1])) =>
                        /\ c.result.error = <<"End Node " \o c.destination \o " not found">>
                        /\ c.result.path = <<>>
      ]_vars

\* a request between two unknown stops answered with the unknown-origin error
C20_Witness ==
    /\ build = "penalty" /\ graph # <<>> /\ calls # <<>>
    /\ calls[1].origin = "Z" /\ calls[1].destination = "Y"
    /\ calls[1].result.error = <<"Start Node Z not found">>
    /\ LastMessage.type = "RESULT" /\ LastMessage.error = <<"Start Node Z not found">>

\* the destination can be reached from the origin over edges the exclusions leave
Reachable(g, origin, destination, excludedModes) ==
    CheapestCosts(g, origin, destination, 0, excludedModes) # {}

(***************************************************************************)
(* C21.  For a call with the origin different from the destination, both   *)
(* nodes of the loaded graph, findPath returns 'No path found' exactly     *)
(* when the destination cannot be reached over the edges that survive the  *)
(* mode exclusion, and returns a path and no error whenever it can be      *)
(* reached, edges of weight 0 included.                                    *)
(***************************************************************************)
C21_NoPathExactlyWhenUnreachable ==
    [][ (build = "penalty" /\ received' = received + 1 /\ graph # <<>>) =>
            \A i \in 1..Len(calls') :
                LET c == calls'[i] IN
                (c.origin # c.destination
                 /\ c.origin \in DOMAIN graph[1] /\ c.destination \in DOMAIN graph[1]) =>
                    IF Reachable(graph[1], c.origin, c.destination, c.excludedModes)
                    THEN c.result.error = <<>> /\ c.result.path # <<>>
                    ELSE c.result.error = <<"No path found">>
      ]_vars

(***************************************************************************)
(* C22.  Every findPath call terminates, in every revision of the worker:  *)
(* no delivered message leaves its handler in a loop that never ends.      *)
(***************************************************************************)
C22_EveryCallTerminates == ~hung

(***************************************************************************)
(* C23.  In any sequence of coordinate queries, the last step of every     *)
(* returned path (service End, to Destination) leaves a stop that is among *)
(* the nearest stops of the destination of the query being answered, and   *)
(* its weight is that stop's distance to this destination times the        *)
(* walking rate; the End edge of an earlier query is never used.           *)
(***************************************************************************)
C23_EndStepBelongsToCurrentQuery ==
    [][ (build = "coordinate" /\ received' = received + 1
         /\ calls' # <<>> /\ Succeeded(calls'[1])) =>
            LET path == PathOf(calls'[1])
                last == path[Len(path)]
                endNeighbors == findNearestNodes(metadata, Head(inbox).end)
            IN  /\ last.service = "End" /\ last.to = "Destination"
                /\ \E k \in 1..Len(endNeighbors) :
                        /\ endNeighbors[k].id = last.from
                        /\ last.weight = endNeighbors[k].dist * SECONDS_PER_HM
      ]_vars

(***************************************************************************)
(* C24.  After any sequence of push and pop on a MinHeap, pop returns      *)
(* undefined when the heap is empty; otherwise it removes and returns      *)
(* exactly one entry, whose priority is at most the priority of every      *)
(* entry left in the heap.  push adds exactly one entry, so the multiset   *)
(* of entries is the pushed ones minus the popped ones, duplicates kept,   *)
(* and length is its size.                                                 *)
(***************************************************************************)
Count(heap, e) == Cardinality({ i \in 1..Len(heap) : heap[i] = e })

C24_PopReturnsAMinimum ==
    [][ /\ applied' = "pop" =>
            IF minHeap = <<>>
            THEN popped' = <<>> /\ minHeap' = <<>> /\ length(minHeap') = 0
            ELSE /\ Len(popped') = 1
                 /\ \A i \in 1..Len(minHeap') : popped'[1].priority <= minHeap'[i].priority
                 /\ \A e \in HeapEntries :
                        Count(minHeap', e) = Count(minHeap, e) - (IF e = popped'[1] THEN 1 ELSE 0)
                 /\ length(minHeap') = length(minHeap) - 1
        /\ applied' = "push" =>
            /\ \E pushed \in HeapEntries : \A e \in HeapEntries :
                   Count(minHeap', e) = Count(minHeap, e) + (IF e = pushed THEN 1 ELSE 0)
            /\ length(minHeap') = length(minHeap) + 1 ]_vars

\* a pop that left behind a copy of the entry it returned, next to a larger entry
C24_Witness ==
    /\ applied = "pop" /\ popped # <<>>
    /\ Len(minHeap) >= 3
    /\ \E i \in 1..Len(minHeap) : minHeap[i] = popped[1]
    /\ \E i \in 1..Len(minHeap) : minHeap[i].priority > popped[1].priority

(***************************************************************************)
(* C25.  formatRoute is idempotent under re-compaction: reading each leg   *)
(* it returned as one step (from = startStopId, to = endStopId, the same   *)
(* kind and service, weight = duration) and formatting that sequence again *)
(* gives the same number of legs, with the same kind, service, endpoints   *)
(* and duration.                                                           *)
(***************************************************************************)
LegsAsSteps(legs) ==
    [i \in 1..Len(legs) |->
        [from |-> legs[i].startStopId, to |-> legs[i].endStopId,
         type |-> legs[i].type, service |-> legs[i].service,
         weight |-> legs[i].duration]]

SameLegs(a, b) ==
    /\ Len(a) = Len(b)
    /\ \A i \in 1..Len(a) :
        /\ a[i].type = b[i].type /\ a[i].service = b[i].service
        /\ a[i].startStopId = b[i].startStopId /\ a[i].endStopId = b[i].endStopId
        /\ a[i].duration = b[i].duration

C25_FormatRouteIdempotent ==
    /\ applied = "formatRoute" =>
        SameLegs(formatRoute(LegsAsSteps(instructions), pageMetadata), instructions)
    /\ applied = "formatRouteByService" =>
        SameLegs(formatRouteByService(LegsAsSteps(instructions), pageMetadata), instructions)

\* a typed path formatted into fewer legs than steps: one leg combines two steps
C25_Witness ==
    /\ applied = "formatRoute"
    /\ 2 <= Len(instructions) /\ Len(instructions) < Len(inputPath)
    /\ TypeOf(inputPath[1]) # "undefined"

\* the nodes whose previous[] entry the step just taken wrote
Recorded ==
    { v \in DOMAIN search'.previous :
        v \notin DOMAIN search.previous \/ search'.previous[v] # search.previous[v] }

\* the parallel edges to v among the neighbours `entries`
EdgesTo(entries, v) ==
    LET ks == { k \in 1..Len(entries) : entries[k].to = v } IN
    IF ks = {} THEN <<>> ELSE entries[CHOOSE k \in ks : TRUE].edges

\* the service by which u was reached: <<>> when previous[u] is absent
IncomingService(u) ==
    IF u \in DOMAIN search.previous THEN <<search.previous[u].edge.service>> ELSE <<>>

\* in the penalty revision the edge recorded for v costs no more than any
\* other non-excluded parallel edge
PenaltyRecordsCheapest(v) ==
    LET rec == search'.previous[v]
        edges == EdgesTo(query.graph[rec.node], v)
    IN  /\ ~IsExcluded(rec.edge, query.excludedModes)
        /\ \A k \in 1..Len(edges) :
              ~IsExcluded(edges[k], query.excludedModes) =>
                  EdgeCost(rec.edge, IncomingService(rec.node), query.transferPenalty)
                      <= EdgeCost(edges[k], IncomingService(rec.node),
                                  query.transferPenalty)

\* the same in the coordinate revision: its cost is the weight plus its penalty
CoordRecordsCheapest(v) ==
    LET rec == search'.previous[v]
        edges == EdgesTo(CoordNeighbors(search'.graph, rec.node, query.startNeighbors), v)
    IN  \A k \in 1..Len(edges) :
            rec.edge.weight + CoordPenalty(search.previous, rec.node, rec.edge)
                <= edges[k].weight + CoordPenalty(search.previous, rec.node, edges[k])

(***************************************************************************)
(* C26.  When findPath relaxes u -> v, the edge it records in prev[v]      *)
(* minimises the cost (effective weight plus transfer penalty, the penalty *)
(* computed against the service of the edge by which u was reached) among  *)
(* all non-excluded parallel edges from u to v; it is not simply the edge  *)
(* of minimum raw weight.                                                  *)
(***************************************************************************)
C26_RecordedEdgeMinimisesCost ==
    [][ \A v \in Recorded :
            IF build = "penalty" THEN PenaltyRecordsCheapest(v)
            ELSE CoordRecordsCheapest(v) ]_vars

\* the penalty revision alone
C26_PenaltyRevision ==
    [][ build = "penalty" => \A v \in Recorded : PenaltyRecordsCheapest(v) ]_vars

(***************************************************************************)
(* C27.  The cost findPath charges for an edge e leaving u is w + p: w is  *)
(* e.weight doubled when e.service is WALK and e.weight otherwise; p is 0  *)
(* when u has no incoming edge or the incoming edge has the service of e,  *)
(* and 300 + transferPenalty otherwise.  The distance recorded for v is    *)
(* the distance at which u was expanded plus that cost.                    *)
(***************************************************************************)
C27_ChargedCostIsWeightPlusPenalty ==
    [][ build = "penalty" =>
            \A v \in Recorded :
                LET e == search'.previous[v].edge
                    u == search'.previous[v].node
                    w == IF e.service = "WALK" THEN 2 * e.weight ELSE e.weight
                    p == IF u \notin DOMAIN search.previous
                            \/ search.previous[u].edge.service = e.service
                         THEN 0 ELSE 300 + query.transferPenalty
                IN  /\ u = search.pq[1].element
                    /\ search'.distances[v] = search.pq[1].priority + w + p ]_vars

\* a search with transferPenalty 600 that recorded a walk and an edge whose
\* service differs from the one its tail was reached by
C27_Witness ==
    /\ build = "penalty" /\ search # <<>> /\ query.transferPenalty = 600
    /\ \E v \in DOMAIN search.previous : search.previous[v].edge.service = "WALK"
    /\ \E v \in DOMAIN search.previous :
          LET u == search.previous[v].node IN
          /\ u \in DOMAIN search.previous
          /\ search.previous[u].edge.service # search.previous[v].edge.service

\* the walking of a processed route: the durations of its WALK legs
WalkingOf(route) ==
    SumOf(SelectSeq(route.legs, LAMBDA l : l.type = "WALK"), "duration")

\* the key the ranking sorts by first
RankingKey(route, sortOption) ==
    IF sortOption = "LESS_TRANSFERS" THEN route.summary.transferCount
    ELSE IF sortOption = "LESS_WALKING" THEN WalkingOf(route)
    ELSE route.raw.totalDuration

ProcessedIndex(route) ==
    CHOOSE i \in 1..Len(processedRoutes) : processedRoutes[i].id = route.id

\* a is ranked before b: by key, then by totalDuration, then by input order
RankedBefore(a, b, sortOption) ==
    \/ RankingKey(a, sortOption) < RankingKey(b, sortOption)
    \/ /\ RankingKey(a, sortOption) = RankingKey(b, sortOption)
       /\ a.raw.totalDuration < b.raw.totalDuration
    \/ /\ RankingKey(a, sortOption) = RankingKey(b, sortOption)
       /\ a.raw.totalDuration = b.raw.totalDuration
       /\ ProcessedIndex(a) < ProcessedIndex(b)

DisplayedInRankingOrder ==
    /\ Len(shownRoutes) = Len(processedRoutes)
    /\ \A i \in 1..Len(processedRoutes) : \E j \in 1..Len(shownRoutes) :
          shownRoutes[j] = processedRoutes[i]
    /\ \A i, j \in 1..Len(shownRoutes) :
          i < j => RankedBefore(shownRoutes[i], shownRoutes[j], activeSort)

(***************************************************************************)
(* C28.  The route list the application displays (sortedRoutes) has, for   *)
(* every list of processed routes and every sort option, the order of the  *)
(* ranking: FASTEST by totalDuration, LESS_TRANSFERS by transferCount then *)
(* totalDuration, LESS_WALKING by walking then totalDuration, equal routes *)
(* in input order.                                                         *)
(***************************************************************************)
C28_DisplayedOrderIsRanking ==
    applied = "sortedRoutes" => DisplayedInRankingOrder

\* the same for the option FASTEST alone
C28_FastestOnly ==
    (applied = "sortedRoutes" /\ activeSort = "FASTEST") => DisplayedInRankingOrder

\* the same for the option LESS_TRANSFERS alone
C28_LessTransfersOnly ==
    (applied = "sortedRoutes" /\ activeSort = "LESS_TRANSFERS") => DisplayedInRankingOrder

\* the node a search starts from
OriginOf == IF build = "penalty" THEN query.startNode ELSE "__START__"

\* following previous[] from v ends at the origin without visiting a node twice
RECURSIVE ChainReachesOrigin(_, _, _, _)
ChainReachesOrigin(previous, v, origin, seen) ==
    IF v \in seen THEN FALSE
    ELSE IF v \notin DOMAIN previous THEN v = origin
    ELSE ChainReachesOrigin(previous, previous[v].node, origin, seen \cup {v})

\* one step of a search keeps what was recorded: no distance grows, no
\* expanded node gets another prev, and a finished search leaves a tree
StepKeepsRecords ==
    /\ \A v \in DOMAIN search.distances :
          search'.distances[v] <= search.distances[v]
    /\ \A v \in search.visited :
          IF v \in DOMAIN search.previous
          THEN search'.previous[v] = search.previous[v]
          ELSE v \notin DOMAIN search'.previous
    /\ ~searching' =>
          \A v \in DOMAIN search'.previous :
              ChainReachesOrigin(search'.previous, v, OriginOf, {})

\* no edge of the graph file has weight zero
PositiveWeights(g) ==
    \A u \in DOMAIN g : \A k \in 1..Len(g[u]) : \A e \in 1..Len(g[u][k].edges) :
        g[u][k].edges[e].weight > 0

(***************************************************************************)
(* C29.  During one findPath search on a graph with weights >= 0, zero     *)
(* included, the recorded distance of a node never increases once set and  *)
(* prev of a node never changes after the node was expanded; so at the end *)
(* of the search the prev chain from any reached node leads back to the    *)
(* origin without visiting a node twice.                                   *)
(***************************************************************************)
C29_DistancesFallAndPrevIsATree == [][StepKeepsRecords]_vars

\* the same for the penalty revision on graphs without a weight of zero
C29_PositiveWeights ==
    [][ (build = "penalty" /\ PositiveWeights(query.graph)) => StepKeepsRecords ]_vars

(***************************************************************************)
(* C30.  Whenever a CALCULATE response contains both routes, the direct    *)
(* (Less Transfers) route has no more service changes, consecutive steps   *)
(* with different service, than the fastest route.                         *)
(***************************************************************************)
C30_DirectHasNoMoreChanges ==
    \A m \in 1..Len(outbox) :
        (build = "penalty" /\ CarriesRoutes(outbox[m]) /\ Len(outbox[m].routes[1]) = 2) =>
            ServiceChanges(outbox[m].routes[1][2].path)
                <= ServiceChanges(outbox[m].routes[1][1].path)
====
